---- MODULE Spec2Model ----
(***************************************************************************)
(* Model of the text-to-mindmap pipeline of Mindmap-mvp:                   *)
(*   src/mindmap_pipeline.py      MindMapPipeline                          *)
(*   src/services/ai_pipeline.py  AIPipelineService                        *)
(*                                                                         *)
(* Python strings are modelled as sequences of one-character strings, so   *)
(* that len(), slicing, strip() and the regular-expression splits are      *)
(* computed character by character, as the code computes them.             *)
(***************************************************************************)
EXTENDS Integers, Sequences, FiniteSets, TLC

(***************************************************************************)
(* String helpers                                                          *)
(***************************************************************************)

\* Characters matched by \s and removed by str.strip().
WS == {" ", "\t", "\n"}

\* Characters matched by [.!?] (preprocess_text, line 52).
Terminators == {".", "!", "?"}

\* Characters matched by [,;] (preprocess_text, line 61).
Separators == {",", ";"}

\* s[:n]
Take(s, n) == SubSeq(s, 1, IF n < Len(s) THEN n ELSE Len(s))

\* First index j >= i with s[j] \notin D, or Len(s)+1: the end of the
\* maximal run of D-characters a greedy D+ consumes from position i.
RunEnd(s, i, D) ==
    CHOOSE j \in i..(Len(s) + 1) :
        /\ \A m \in i..(j - 1) : s[m] \in D
        /\ j = Len(s) + 1 \/ s[j] \notin D

\* Last index j <= i with s[j] \notin D, or 0.
RunStart(s, i, D) ==
    CHOOSE j \in 0..i :
        /\ \A m \in (j + 1)..i : s[m] \in D
        /\ j = 0 \/ s[j] \notin D

\* str.lstrip()
LStrip(s) == SubSeq(s, RunEnd(s, 1, WS), Len(s))

\* str.rstrip()
RStrip(s) == SubSeq(s, 1, RunStart(s, Len(s), WS))

\* str.strip()
Strip(s) == RStrip(LStrip(s))

\* The set of elements of a sequence.
Range(seq) == {seq[i] : i \in 1..Len(seq)}

\* The elements of a finite set of integers in increasing order.
SortedSeq(S) ==
    [k \in 1..Cardinality(S) |->
        CHOOSE x \in S : Cardinality({y \in S : y < x}) = k - 1]

\* re.sub(r'\s+', ' ', s): every maximal whitespace run becomes one space
\* (the first character of each run is kept, as a space).
CollapseWS(s) ==
    LET kept == SortedSeq({i \in 1..Len(s) :
                    s[i] \notin WS \/ i = 1 \/ s[i - 1] \notin WS})
    IN  [k \in 1..Len(kept) |-> IF s[kept[k]] \in WS THEN " " ELSE s[kept[k]]]

\* First index j >= i with s[j] \in D, or Len(s)+1.
NextIn(s, i, D) ==
    LET hits == {j \in i..Len(s) : s[j] \in D}
    IN  IF hits = {} THEN Len(s) + 1
        ELSE CHOOSE j \in hits : \A m \in hits : j <= m

RECURSIVE SplitRuns(_, _, _)
\* re.split(r'[D]+', s) from position i on: the pieces between the maximal
\* runs of D-characters.
SplitRuns(s, D, i) ==
    LET j == NextIn(s, i, D)
    IN  IF j > Len(s) THEN <<SubSeq(s, i, Len(s))>>
        ELSE <<SubSeq(s, i, j - 1)>> \o SplitRuns(s, D, RunEnd(s, j, D))

\* Does \s+and\s+ match at position i of s?  The greedy \s+ takes the whole
\* whitespace run; "and" and at least one whitespace must follow it.
AndMatchAt(s, i) ==
    /\ i <= Len(s)
    /\ s[i] \in WS
    /\ LET j == RunEnd(s, i, WS)
       IN  /\ j + 3 <= Len(s)
           /\ SubSeq(s, j, j + 2) = <<"a", "n", "d">>
           /\ s[j + 3] \in WS

\* Position right after the match of \s+and\s+ that starts at i.
AndMatchEnd(s, i) == RunEnd(s, RunEnd(s, i, WS) + 3, WS)

\* Does [,;]|\s+and\s+ match at position i of s?
PhraseSepAt(s, i) == s[i] \in Separators \/ AndMatchAt(s, i)

\* Leftmost position >= i where [,;]|\s+and\s+ matches, or Len(s)+1.
NextPhraseSep(s, i) ==
    CHOOSE j \in i..(Len(s) + 1) :
        /\ \A m \in i..(j - 1) : ~PhraseSepAt(s, m)
        /\ j = Len(s) + 1 \/ PhraseSepAt(s, j)

RECURSIVE SplitPhrases(_, _)
\* re.split(r'[,;]|\s+and\s+', s) from position i on.
SplitPhrases(s, i) ==
    LET j == NextPhraseSep(s, i)
    IN  IF j > Len(s) THEN <<SubSeq(s, i, Len(s))>>
        ELSE <<SubSeq(s, i, j - 1)>> \o
             SplitPhrases(s, IF s[j] \in Separators THEN j + 1
                             ELSE AndMatchEnd(s, j))

RECURSIVE SplitChar(_, _, _)
\* s.split(c) from position i on, for a one-character separator c: every
\* occurrence of c splits.
SplitChar(s, c, i) ==
    LET j == NextIn(s, i, {c})
    IN  IF j > Len(s) THEN <<SubSeq(s, i, Len(s))>>
        ELSE <<SubSeq(s, i, j - 1)>> \o SplitChar(s, c, j + 1)

RECURSIVE Flatten(_)
\* Concatenation of a sequence of sequences (list.extend in a loop).
Flatten(ss) ==
    IF ss = <<>> THEN <<>> ELSE Head(ss) \o Flatten(Tail(ss))

RECURSIVE Repeat(_, _)
\* s * n
Repeat(s, n) == IF n <= 0 THEN <<>> ELSE s \o Repeat(s, n - 1)

\* One decimal digit as a character.
Digit(d) == <<"0", "1", "2", "3", "4", "5", "6", "7", "8", "9">>[d + 1]

RECURSIVE IntToStr(_)
\* str(n) for n >= 0, as used by the f-strings "Cluster {i+1}", "Topic {n}".
IntToStr(n) ==
    IF n < 10 THEN <<Digit(n)>> ELSE Append(IntToStr(n \div 10), Digit(n % 10))

\* [x.strip() for x in ss]
MapStrip(ss) == [i \in 1..Len(ss) |-> Strip(ss[i])]

(***************************************************************************)
(* MindMapPipeline.preprocess_text                                         *)
(***************************************************************************)

\* Lines 49-55: normalise, split into sentences, keep the long ones.
Sentences(text) ==
    LET norm   == CollapseWS(Strip(text))
        pieces == SplitRuns(norm, Terminators, 1)
        LongEnough(s) == Len(Strip(s)) > 10
    IN  MapStrip(SelectSeq(pieces, LongEnough))

\* A faulty variant of SentencePhrases that keeps the fragments as they are
\* split (p instead of p.strip() at line 62).
SentencePhrases_unstripped(sentence) ==
    LET sub == SplitPhrases(sentence, 1)
        LongEnough(p) == Len(Strip(p)) > 5
    IN  SelectSeq(sub, LongEnough)

\* Lines 61-62: the phrases of one sentence.
SentencePhrases(sentence) ==
    LET sub == SplitPhrases(sentence, 1)
        LongEnough(p) == Len(Strip(p)) > 5
    IN  MapStrip(SelectSeq(sub, LongEnough))

\* preprocess_text(text)
preprocess_text(text) ==
    LET ss == Sentences(text)
    IN  Flatten([i \in 1..Len(ss) |-> SentencePhrases(ss[i])])

(***************************************************************************)
(* Bounds of the model and the input texts                                 *)
(***************************************************************************)

\* Number of comma-separated phrases of the longest single-sentence text.
MaxPhrases == 6

\* Number of period-terminated short sentences of the longest text.
MaxSentences == 19

\* Largest number of points for which every assignment of cluster ids is
\* explored; above it KMeans is explored on the affine assignments only.
MaxFullAssign == 4

\* Largest number of items of a named-entity response body.
MaxNerItems == 9

\* Largest number of points handed to cluster_embeddings on its own.
MaxPoints == 22

\* Largest n_clusters argument handed to cluster_embeddings on its own.
MaxSuppliedK == 3

\* Written-out texts ("\o" glues the literal pieces together).
Comma == <<",">>
Period == <<".">>

RECURSIVE NumberedList(_, _, _, _)
\* stem1 sep stem2 sep ... stem<n> sep
NumberedList(stem, sep, i, n) ==
    IF i > n THEN <<>>
    ELSE stem \o IntToStr(i) \o sep \o NumberedList(stem, sep, i + 1, n)

\* "..." : no phrase and no period-separated sentence.
TextDots == <<".", ".", ".">>

\* "Hi. Yo." : no phrase (both sentences are too short), two sentences.
TextShort == <<"H", "i", ".", " ", "Y", "o", ".">>

\* "alpha beta gamma" : one phrase.
TextOne == <<"a","l","p","h","a"," ","b","e","t","a"," ","g","a","m","m","a">>

\* "  cats purr and dogs bark!  " : two phrases.
TextTwo == <<" ", " ", "c","a","t","s"," ","p","u","r","r"," ","a","n","d"," ",
             "d","o","g","s"," ","b","a","r","k","!", " ", " ">>

\* A 59-character phrase followed by a short one: ", second one."
LongPhrase == Repeat(<<"l","o","n","g"," ">>, 11) \o <<"t","a","i","l">>
TextLong == LongPhrase \o <<",", " ", "s","e","c","o","n","d"," ","o","n","e", ".">>

\* "phrase1,phrase2,...,phrase<n>," : one sentence of n phrases.
TextPhrases(n) == NumberedList(<<"p","h","r","a","s","e">>, Comma, 1, n)

\* "s1.s2.....s<n>." : n short sentences, no phrase.
TextSentences(n) == NumberedList(<<"s">>, Period, 1, n)

\* "No. first part, ab ;  second part!? third one here" : a sentence that
\* is too short, then two sentences of three phrases and a fragment that is
\* too short.
TextMixed ==
    <<"N","o","."," ","f","i","r","s","t"," ","p","a","r","t",","," ","a","b",
      " ",";"," "," ","s","e","c","o","n","d"," ","p","a","r","t","!","?"," ",
      "t","h","i","r","d"," ","o","n","e"," ","h","e","r","e">>

\* The input texts of the model.
Texts ==
    { <<>>, TextDots, TextShort, TextOne, TextTwo, TextLong, TextMixed,
      TextPhrases(MaxFullAssign), TextPhrases(MaxPhrases),
      TextSentences(MaxSentences) }

(***************************************************************************)
(* Remote calls.  A call either raises (network error, undecodable body)   *)
(* or returns a status code and a decoded JSON body.                       *)
(***************************************************************************)

\* requests.post(...) raised, or response.json() raised.
Exception == [kind |-> "exception"]

\* A response with the given status code and decoded body.
Http(status, body) == [kind |-> "http", status |-> status, body |-> body]

\* A JSON object such as {"error": "..."}: a body that is not a list.
JsonObject == [type |-> "dict"]

\* A JSON list, given by its items.
JsonList(items) == [type |-> "list", len |-> Len(items), items |-> items]

\* isinstance(body, list)
IsList(body) == body.type = "list"

\* Dimension of the embedding model and of the synthetic vectors (line 92).
EmbeddingDim == 384

\* Numeric values are abstracted to their numpy shape: <<>> for a number,
\* <<d>> for a list of d numbers.
Number == <<>>
Vector(d) == <<d>>

\* A JSON list of n numbers; only its first item is written out.
NumberList(n) == [type |-> "list", len |-> n, items |-> <<Number>>]

\* Bodies of the embedding endpoint.
EmbedBodies ==
    { JsonObject,                               \* {"error": ...}
      JsonList(<<>>),                           \* []
      JsonList(<<Vector(EmbeddingDim)>>),       \* [[x1, ..., x384]]
      NumberList(EmbeddingDim),                 \* [x1, ..., x384]
      JsonList(<<Vector(3)>>) }                 \* [[x1, x2, x3]]

\* Outcomes of one embedding request.
EmbedResponses ==
    {Exception} \cup {Http(200, b) : b \in EmbedBodies}
                \cup {Http(503, JsonObject)}

(***************************************************************************)
(* MindMapPipeline.get_embeddings                                          *)
(***************************************************************************)

\* np.random.rand(384).tolist(): the synthetic vector for phrase i.
SyntheticEmbedding(i) == [of |-> i, shape |-> Vector(EmbeddingDim), synth |-> TRUE]

\* Lines 79-99, one iteration: what is appended for phrase i on outcome r.
EmbeddingFor(i, r) ==
    IF r.kind = "exception" THEN SyntheticEmbedding(i)
    ELSE IF r.status = 200
         THEN IF IsList(r.body) /\ r.body.len > 0
              THEN [of |-> i, shape |-> r.body.items[1], synth |-> FALSE]
              ELSE SyntheticEmbedding(i)
         ELSE SyntheticEmbedding(i)

\* An exception of type exc raised inside the function at.
Raise(exc, at) == [kind |-> "raise", exc |-> exc, at |-> at]

\* A value returned normally.
Return(v) == [kind |-> "return", value |-> v]

\* np.array(embeddings), line 101.  Rows of one shape make an array of
\* shape (N,) + shape; an empty list makes shape (0,).  Rows of different
\* shapes raise ValueError (numpy >= 1.24) or make a one-dimensional array
\* of objects (older numpy): both are outcomes.
NpArray(embs) ==
    IF embs = <<>> THEN {Return([shape |-> <<0>>, rows |-> <<>>, numeric |-> TRUE])}
    ELSE IF \A i \in 1..Len(embs) : embs[i].shape = embs[1].shape
         THEN {Return([shape |-> <<Len(embs)>> \o embs[1].shape,
                       rows |-> embs, numeric |-> TRUE])}
         ELSE {Raise("ValueError", "get_embeddings"),
               Return([shape |-> <<Len(embs)>>, rows |-> embs, numeric |-> FALSE])}

(***************************************************************************)
(* MindMapPipeline.cluster_embeddings                                      *)
(***************************************************************************)

Min(a, b) == IF a < b THEN a ELSE b
Max(a, b) == IF a > b THEN a ELSE b

\* An optional argument: None, or a supplied value.
None == <<>>
Some(v) == <<v>>

\* A faulty variant of EffectiveK that leaves out lines 119-120 (the count
\* is not cut down to the number of points).
EffectiveK_unclamped(N, n_clusters) ==
    LET max_clusters == Min(10, Max(2, N \div 2))
    IN  IF n_clusters = None THEN Max(2, Min(max_clusters, N))
        ELSE n_clusters[1]

\* Lines 114-120: the cluster count handed to KMeans for N points.
EffectiveK(N, n_clusters) ==
    LET max_clusters == Min(10, Max(2, N \div 2))
        k == IF n_clusters = None THEN Max(2, Min(max_clusters, N))
             ELSE n_clusters[1]
    IN  IF N < k THEN N ELSE k

\* The assignments j |-> (a*(j-1)+b) mod k of N points to k clusters.
AffineAssignments(N, k) ==
    { [j \in 1..N |-> (a * (j - 1) + b) % k] : a \in 0..(k - 1), b \in 0..(k - 1) }

\* KMeans(n_clusters=k).fit_predict on N points: one cluster id in [0, k)
\* per point.  Which ids come out depends on the vectors and on the
\* centroid initialisation, so every assignment is an outcome; above
\* MaxFullAssign points only the affine ones are explored.
KMeansLabels(N, k) ==
    IF N <= MaxFullAssign THEN [1..N -> 0..(k - 1)] ELSE AffineAssignments(N, k)

\* Input validation of KMeans.fit_predict: a numeric two-dimensional array
\* with at least one feature and at least n_clusters >= 1 samples.
KMeansAccepts(array, k) ==
    /\ array.numeric
    /\ Len(array.shape) = 2
    /\ array.shape[2] >= 1
    /\ k >= 1
    /\ array.shape[1] >= k

\* cluster_embeddings(embeddings, n_clusters): the possible outcomes.
cluster_embeddings(array, n_clusters) ==
    LET k == EffectiveK(array.shape[1], n_clusters)
    IN  IF KMeansAccepts(array, k)
        THEN {Return([cluster_labels |-> l, n_clusters |-> k]) :
                  l \in KMeansLabels(array.shape[1], k)}
        ELSE {Raise("ValueError", "cluster_embeddings")}

(***************************************************************************)
(* MindMapPipeline.classify_clusters                                       *)
(***************************************************************************)

\* Labels of the candidate vocabulary (lines 141-145) used by the model.
Business == <<"B","u","s","i","n","e","s","s">>
Health == <<"H","e","a","l","t","h">>
Travel == <<"T","r","a","v","e","l">>

\* A 37-character label, as an endpoint outside the vocabulary may return.
LongLabel == Repeat(<<"A","r","t"," ">>, 8) \o <<"M","u","s","i","c">>

\* Bodies of the classification endpoint.
ClassifyBodies ==
    { JsonObject,
      JsonList(<<>>),
      JsonList(<<[label |-> Business, score |-> 1],
                 [label |-> Health, score |-> 3],
                 [label |-> Travel, score |-> 3]>>),
      JsonList(<<[label |-> Business, score |-> 2], [label |-> Health]>>),
      JsonList(<<[label |-> LongLabel, score |-> 1]>>) }

\* Outcomes of one classification request.
ClassifyResponses ==
    {Exception} \cup {Http(200, b) : b \in ClassifyBodies}
                \cup {Http(503, JsonObject)}

\* max(result, key=lambda x: x['score']): the first item of maximal score.
MaxByScore(items) ==
    items[CHOOSE i \in 1..Len(items) :
              /\ \A j \in 1..Len(items) : items[j].score <= items[i].score
              /\ \A j \in 1..(i - 1) : items[j].score < items[i].score]

\* A faulty variant of FallbackLabel that numbers from 0 (f"Cluster {i}").
FallbackLabel_zero_based(i) == <<"C","l","u","s","t","e","r"," ">> \o IntToStr(i)

\* "Cluster {i+1}" for the 0-based index i (lines 165, 167, 171).
FallbackLabel(i) == <<"C","l","u","s","t","e","r"," ">> \o IntToStr(i + 1)

\* Lines 148-171, one iteration: the label appended for the representative
\* of 0-based index i on outcome r.  A missing 'score' or 'label' key
\* raises KeyError inside the try block.
ClassifiedLabel(i, r) ==
    IF r.kind = "exception" THEN FallbackLabel(i)
    ELSE IF r.status = 200
         THEN IF IsList(r.body) /\ r.body.len > 0
              THEN IF /\ \A j \in 1..Len(r.body.items) :
                            "score" \in DOMAIN r.body.items[j]
                      /\ "label" \in DOMAIN MaxByScore(r.body.items)
                   THEN MaxByScore(r.body.items).label
                   ELSE FallbackLabel(i)
              ELSE FallbackLabel(i)
         ELSE FallbackLabel(i)

\* A faulty variant of Longest that takes the last text of maximal length.
Longest_last(texts) ==
    texts[CHOOSE i \in 1..Len(texts) :
              /\ \A j \in 1..Len(texts) : Len(texts[j]) <= Len(texts[i])
              /\ \A j \in (i + 1)..Len(texts) : Len(texts[j]) < Len(texts[i])]

\* max(cluster_texts, key=len): the first text of maximal length.
Longest(texts) ==
    texts[CHOOSE i \in 1..Len(texts) :
              /\ \A j \in 1..Len(texts) : Len(texts[j]) <= Len(texts[i])
              /\ \A j \in 1..(i - 1) : Len(texts[j]) < Len(texts[i])]

\* A faulty variant of MembersOf that collects the elements from the last
\* position to the first.
MembersOf_backwards(c, seq, labels) ==
    LET pos == SortedSeq({j \in 1..Min(Len(seq), Len(labels)) : labels[j] = c})
    IN  [m \in 1..Len(pos) |-> seq[pos[Len(pos) + 1 - m]]]

\* The elements of seq at the positions (1-based) where labels hold id c
\* (0-based positions in the code), in order.
MembersOf(c, seq, labels) ==
    LET pos == SortedSeq({j \in 1..Min(Len(seq), Len(labels)) : labels[j] = c})
    IN  [m \in 1..Len(pos) |-> seq[pos[m]]]

\* A faulty variant of Representatives without the else branch of lines
\* 350-351: a cluster id that no phrase was assigned to gets no
\* representative.
Representatives_nonempty(phrases, labels, k) ==
    LET NonEmpty(t) == t # <<>>
    IN  SelectSeq([i \in 1..k |->
                      LET cluster_texts == MembersOf(i - 1, phrases, labels)
                      IN  IF cluster_texts # <<>> THEN Longest(cluster_texts)
                          ELSE <<>>],
                  NonEmpty)

\* process_text, lines 343-351: one representative per cluster id.
Representatives(phrases, labels, k) ==
    [i \in 1..k |->
        LET cluster_texts == MembersOf(i - 1, phrases, labels)
        IN  IF cluster_texts # <<>> THEN Longest(cluster_texts) ELSE <<>>]

(***************************************************************************)
(* MindMapPipeline.summarize_text                                          *)
(***************************************************************************)

Ellipsis == <<".", ".", ".">>

\* Summaries returned by the summarization endpoint: 4 and 60 characters.
ShortSummary == <<"g","i","s","t">>
LongSummary == Repeat(<<"g","i","s","t"," ">>, 12)

\* Bodies of the summarization endpoint.
SummaryBodies ==
    { JsonObject,
      JsonList(<<>>),
      JsonList(<<[summary_text |-> ShortSummary]>>),
      JsonList(<<[summary_text |-> LongSummary]>>),
      JsonList(<<[generated_text |-> ShortSummary]>>) }

\* Outcomes of one summarization request.
SummaryResponses ==
    {Exception} \cup {Http(200, b) : b \in SummaryBodies}
                \cup {Http(503, JsonObject)}

\* A faulty variant of Truncated without the ellipsis.
Truncated_plain(text, max_length) == Take(text, max_length)

\* text[:max_length] + "..."
Truncated(text, max_length) == Take(text, max_length) \o Ellipsis

\* A faulty variant of SummaryRequested that leaves a text of exactly
\* max_length characters to the endpoint (len(text) < max_length at line
\* 186).
SummaryRequested_at_limit(text, max_length) == Len(text) >= max_length

\* Lines 186-189: summarize_text posts a request unless the text is short
\* enough to be returned as it is.
SummaryRequested(text, max_length) == Len(text) > max_length

\* summarize_text(text, max_length) when the request, if one is made,
\* has outcome r.  A missing 'summary_text' raises KeyError inside the try.
summarize_text(text, max_length, r) ==
    IF ~SummaryRequested(text, max_length) THEN text
    ELSE IF r.kind = "exception" THEN Truncated(text, max_length)
    ELSE IF r.status = 200
         THEN IF IsList(r.body) /\ r.body.len > 0
              THEN IF "summary_text" \in DOMAIN r.body.items[1]
                   THEN r.body.items[1].summary_text
                   ELSE Truncated(text, max_length)
              ELSE Truncated(text, max_length)
         ELSE Truncated(text, max_length)

(***************************************************************************)
(* MindMapPipeline.extract_entities                                        *)
(***************************************************************************)

LOC == <<"L","O","C">>
PER == <<"P","E","R">>

\* The i-th item of the named-entity bodies: "w<i>" tagged PER or LOC; the
\* third item has no 'word'.
NerItem(i) ==
    LET cat == IF i = 1 \/ i % 5 = 0 THEN PER ELSE LOC
    IN  IF i = 3 THEN [entity |-> cat]
        ELSE [entity |-> cat, word |-> <<"w">> \o IntToStr(i)]

\* A list item that is a JSON number or null, not an object.
JsonNumber == [type |-> "number"]

\* Bodies of the named-entity endpoint: an object; the first 0, 2 and
\* MaxNerItems items; one entity twice; an entity followed by a number.
NerBodies ==
    {JsonObject} \cup
    {JsonList([i \in 1..n |-> NerItem(i)]) : n \in {0, 2, MaxNerItems}} \cup
    {JsonList(<<NerItem(2), NerItem(2)>>), JsonList(<<NerItem(2), JsonNumber>>)}

\* Outcomes of the named-entity request.
NerResponses ==
    {Exception} \cup {Http(200, b) : b \in NerBodies}
                \cup {Http(503, JsonObject)}

\* A faulty variant of EntityPairs that takes the text from 'entity' and
\* the label from 'word'.
EntityPairs_swapped(items) ==
    LET Complete(item) == "entity" \in DOMAIN item /\ "word" \in DOMAIN item
        kept == SelectSeq(items, Complete)
    IN  [i \in 1..Len(kept) |-> [text |-> kept[i].entity, label |-> kept[i].word]]

\* Lines 233-238: the items that carry both keys, as text/label pairs.
EntityPairs(items) ==
    LET Complete(item) == "entity" \in DOMAIN item /\ "word" \in DOMAIN item
        kept == SelectSeq(items, Complete)
    IN  [i \in 1..Len(kept) |-> [text |-> kept[i].word, label |-> kept[i].entity]]

\* extract_entities(text) when the request has outcome r.  The test
\* 'entity' in item of line 234 raises TypeError for an item that is a
\* number or null; the except clause of line 245 then returns [].
extract_entities(r) ==
    IF r.kind = "exception" THEN <<>>
    ELSE IF r.status = 200
         THEN IF IsList(r.body)
              THEN IF \E i \in 1..Len(r.body.items) : r.body.items[i] = JsonNumber
                   THEN <<>>
                   ELSE EntityPairs(r.body.items)
              ELSE <<>>
         ELSE <<>>

(***************************************************************************)
(* MindMapPipeline.merge_results                                           *)
(***************************************************************************)

MindMapRoot == <<"M","i","n","d"," ","M","a","p">>

\* The distinct values of seq[1..n], in the order of their first
\* occurrence: the key order of a dict filled while scanning seq.
KeysInOrder(seq, n) ==
    LET firsts == SortedSeq({j \in 1..n : \A m \in 1..(j - 1) : seq[m] # seq[j]})
    IN  [i \in 1..Len(firsts) |-> seq[firsts[i]]]

\* A faulty variant of ClusterKeys that visits the cluster ids in ascending
\* order (for cluster_id in sorted(clusters)).
ClusterKeys_ascending(texts, cluster_labels) ==
    SortedSeq({cluster_labels[j] : j \in 1..Min(Len(texts), Len(cluster_labels))})

\* Lines 264-268: the cluster ids, in the key order of the clusters dict.
\* zip() stops at the shorter of texts and cluster_labels.
ClusterKeys(texts, cluster_labels) ==
    KeysInOrder(cluster_labels, Min(Len(texts), Len(cluster_labels)))

\* The summarization requests merge_results issues: <<c, 0>> for the name
\* of cluster c (line 277), <<c, j>> for its j-th item (line 283).
SummarySites(texts, cluster_labels, classified_labels) ==
    LET ids == {c \in Range(ClusterKeys(texts, cluster_labels)) :
                    c < Len(classified_labels)}
    IN  {<<c, 0>> : c \in {d \in ids : Len(classified_labels[d + 1]) > 30}}
        \cup
        {site \in ids \X (1..5) :
            LET members == MembersOf(site[1], texts, cluster_labels)
            IN  site[2] <= Len(members) /\ Len(members[site[2]]) > 50}

\* A faulty variant of ClusterNode that leaves out the [:5] of line 282.
ClusterNode_uncapped(c, texts, cluster_labels, classified_labels, responses) ==
    LET name    == classified_labels[c + 1]
        members == MembersOf(c, texts, cluster_labels)
    IN  [node |-> IF Len(name) > 30
                  THEN summarize_text(name, 30, responses[<<c, 0>>])
                  ELSE name,
         children |-> [j \in 1..Len(members) |->
                          IF Len(members[j]) > 50 /\ j <= 5
                          THEN summarize_text(members[j], 50, responses[<<c, j>>])
                          ELSE members[j]]]

\* Lines 274-290: the node of cluster c; responses maps each summarization
\* request of SummarySites to its outcome.
ClusterNode(c, texts, cluster_labels, classified_labels, responses) ==
    LET name    == classified_labels[c + 1]
        members == Take(MembersOf(c, texts, cluster_labels), 5)
    IN  [node |-> IF Len(name) > 30
                  THEN summarize_text(name, 30, responses[<<c, 0>>])
                  ELSE name,
         children |-> [j \in 1..Len(members) |->
                          IF Len(members[j]) > 50
                          THEN summarize_text(members[j], 50, responses[<<c, j>>])
                          ELSE members[j]]]

\* A faulty variant of ClusterNodes whose guard at line 273 is
\* cluster_id < len(classified_labels) - 1: the cluster of the last label is
\* dropped too.
ClusterNodes_off_by_one(texts, cluster_labels, classified_labels, responses) ==
    LET Labelled(c) == c < Len(classified_labels) - 1
        ids == SelectSeq(ClusterKeys(texts, cluster_labels), Labelled)
    IN  [i \in 1..Len(ids) |->
            ClusterNode(ids[i], texts, cluster_labels, classified_labels, responses)]

\* Lines 271-290: the cluster nodes.
ClusterNodes(texts, cluster_labels, classified_labels, responses) ==
    LET Labelled(c) == c < Len(classified_labels)
        ids == SelectSeq(ClusterKeys(texts, cluster_labels), Labelled)
    IN  [i \in 1..Len(ids) |->
            ClusterNode(ids[i], texts, cluster_labels, classified_labels, responses)]

\* f"Entities ({label})"
EntityNodeName(label) ==
    <<"E","n","t","i","t","i","e","s"," ","(">> \o label \o <<")">>

\* Lines 293-305: one node per entity label, in the key order of the
\* entity_clusters dict.
EntityNodes(entities) ==
    LET labels == [i \in 1..Len(entities) |-> entities[i].label]
        texts  == [i \in 1..Len(entities) |-> entities[i].text]
        keys   == KeysInOrder(labels, Len(labels))
    IN  [i \in 1..Len(keys) |->
            [node |-> EntityNodeName(keys[i]),
             children |-> Take(MembersOf(keys[i], texts, labels), 5)]]

\* A faulty variant of merge_results that puts the entity nodes first.
merge_results_entities_first(texts, cluster_labels, classified_labels, entities, responses) ==
    [root |-> MindMapRoot,
     children |-> EntityNodes(entities)
                  \o ClusterNodes(texts, cluster_labels, classified_labels, responses)]

\* merge_results(texts, cluster_labels, classified_labels, entities)
merge_results(texts, cluster_labels, classified_labels, entities, responses) ==
    [root |-> MindMapRoot,
     children |-> ClusterNodes(texts, cluster_labels, classified_labels, responses)
                  \o EntityNodes(entities)]

(***************************************************************************)
(* AIPipelineService                                                       *)
(***************************************************************************)

\* datetime.utcnow().isoformat(): the time of the call, not modelled further.
UtcNow == "utcnow"

\* f"Topic {n}"
TopicName(n) == <<"T","o","p","i","c"," ">> \o IntToStr(n)

\* Line 56: the stripped non-empty pieces of text.split('.').
FallbackSentences(text) ==
    LET NonEmpty(piece) == Strip(piece) # <<>>
    IN  MapStrip(SelectSeq(SplitChar(text, ".", 1), NonEmpty))

\* A faulty variant of FallbackClusters that names a topic after the
\* position of its first sentence (f"Topic {i + 1}").
FallbackClusters_named_by_position(sentences) ==
    LET chunk_size == Max(1, Len(sentences) \div 3)
        starts == SortedSeq({i \in 0..(Len(sentences) - 1) : i % chunk_size = 0})
    IN  [n \in 1..Len(starts) |->
            [node |-> TopicName(starts[n] + 1),
             children |-> Take(SubSeq(sentences, starts[n] + 1,
                                      Min(starts[n] + chunk_size, Len(sentences))),
                               5)]]

\* Lines 59-68: one node per chunk of chunk_size sentences.
FallbackClusters(sentences) ==
    LET chunk_size == Max(1, Len(sentences) \div 3)
        starts == SortedSeq({i \in 0..(Len(sentences) - 1) : i % chunk_size = 0})
    IN  [n \in 1..Len(starts) |->
            [node |-> TopicName(n),
             children |-> Take(SubSeq(sentences, starts[n] + 1,
                                      Min(starts[n] + chunk_size, Len(sentences))),
                               5)]]

\* A faulty variant of create_fallback_mindmap that leaves out the
\* fallback_mode flag of line 76.
create_fallback_mindmap_unflagged(text) ==
    [root |-> MindMapRoot,
     children |-> FallbackClusters(FallbackSentences(text)),
     generated_at |-> UtcNow,
     source_text_length |-> Len(text),
     ai_processed |-> FALSE]

\* _create_fallback_mindmap(text)
create_fallback_mindmap(text) ==
    [root |-> MindMapRoot,
     children |-> FallbackClusters(FallbackSentences(text)),
     generated_at |-> UtcNow,
     source_text_length |-> Len(text),
     ai_processed |-> FALSE,
     fallback_mode |-> TRUE]

\* Lines 43-45: the metadata added to the pipeline's document.
WithMetadata(mindmap_data, text) ==
    [root |-> mindmap_data.root,
     children |-> mindmap_data.children,
     generated_at |-> UtcNow,
     source_text_length |-> Len(text),
     ai_processed |-> TRUE]

\* A faulty variant of process_text_to_mindmap without the except clause of
\* lines 49-51: an exception of process_text propagates.
process_text_to_mindmap_uncaught(text, outcome) ==
    IF outcome.kind = "return"
    THEN Return(WithMetadata(outcome.value, text))
    ELSE outcome

\* process_text_to_mindmap(text), given the outcome of
\* self.pipeline.process_text(text, output_file=None): every exception is
\* caught and answered by the fallback document.
process_text_to_mindmap(text, outcome) ==
    IF outcome.kind = "return"
    THEN Return(WithMetadata(outcome.value, text))
    ELSE Return(create_fallback_mindmap(text))

(***************************************************************************)
(* The node store: models/database.py, models/node.py, services/mindmap.py *)
(***************************************************************************)

\* NodeCreate's limits (models/node.py): title of 1 to 200 characters,
\* content of at most 1000.
TitleMinLength == 1
TitleMaxLength == 200
ContentMaxLength == 1000

\* save_mindmap_to_db, line 240: str(item)[:100].
LeafTitleLength == 100

\* NodeCreate(title=..., content=...) passes validation.
ValidNodeCreate(title, content) ==
    /\ Len(title) >= TitleMinLength
    /\ Len(title) <= TitleMaxLength
    /\ Len(content) <= ContentMaxLength

\* The ids of the rows of the node table.
Ids(ns) == {ns[i].id : i \in DOMAIN ns}

\* The id a new row gets: the table's id column is an INTEGER PRIMARY KEY
\* of SQLite, one more than the largest id in the table, 1 when empty.
NextId(ns) ==
    IF ns = <<>> THEN 1
    ELSE (CHOOSE m \in Ids(ns) : \A j \in Ids(ns) : j <= m) + 1

\* create_node, lines 23-48: one row is added and committed.
create_node(ns, node_data) ==
    Append(ns, [id |-> NextId(ns),
                title |-> node_data.title,
                content |-> node_data.content,
                node_type |-> node_data.node_type,
                parent_id |-> node_data.parent_id])

\* NodeCreate(title=...) with the defaults of models/node.py.
NodeCreate(title, node_type, parent_id, content) ==
    [title |-> title, node_type |-> node_type, parent_id |-> parent_id,
     content |-> content]

\* delete_node, lines 95-115.  Lines 104-109 execute a SELECT on the
\* connections of the node and drop its result: no connection row is
\* deleted.  Foreign keys are not enforced (SQLite's default), so the row
\* of the node goes even when connections or children refer to it.
delete_node(ns, cs, node_id) ==
    IF node_id \notin Ids(ns)
    THEN [returned |-> FALSE, nodes |-> ns, connections |-> cs]
    ELSE [returned |-> TRUE,
          nodes |-> SelectSeq(ns, LAMBDA row : row.id # node_id),
          connections |-> cs]

\* The positions of the source -> target rows of the connection table.
ConnectionsOf(cs, source_id, target_id) ==
    {i \in DOMAIN cs : cs[i].source = source_id /\ cs[i].target = target_id}

\* seq without its element at position i.
RemoveAt(seq, i) == SubSeq(seq, 1, i - 1) \o SubSeq(seq, i + 1, Len(seq))

\* A faulty variant of link_nodes without the check of lines 126-135 for an
\* existing connection.
link_nodes_unchecked(ns, cs, source_id, target_id) ==
    IF source_id \notin Ids(ns) \/ target_id \notin Ids(ns)
    THEN [returned |-> FALSE, existing |-> FALSE, connections |-> cs]
    ELSE [returned |-> TRUE, existing |-> FALSE,
          connections |-> Append(cs, [source |-> source_id, target |-> target_id])]

\* link_nodes, lines 117-146.
link_nodes(ns, cs, source_id, target_id) ==
    IF source_id \notin Ids(ns) \/ target_id \notin Ids(ns)
    THEN [returned |-> FALSE, existing |-> FALSE, connections |-> cs]
    ELSE IF ConnectionsOf(cs, source_id, target_id) # {}
    THEN [returned |-> TRUE, existing |-> TRUE, connections |-> cs]
    ELSE [returned |-> TRUE, existing |-> FALSE,
          connections |-> Append(cs, [source |-> source_id, target |-> target_id])]

\* unlink_nodes, lines 148-164: the first matching row is deleted.
unlink_nodes(cs, source_id, target_id) ==
    LET found == ConnectionsOf(cs, source_id, target_id)
    IN  IF found = {}
        THEN [returned |-> FALSE, connections |-> cs]
        ELSE [returned |-> TRUE,
              connections |->
                  RemoveAt(cs, CHOOSE i \in found : \A j \in found : i <= j)]

\* The link and unlink endpoints, main.py 155-177.  The HTTPException of
\* status 400 is raised inside the try block, and the only except clause,
\* except Exception, catches it (HTTPException is an Exception) and raises
\* the answer of status 500 in its place.
LinkStatus(raised, success) ==
    IF raised \/ ~success THEN 500 ELSE 200

\* The delete endpoint, main.py 103-115: except HTTPException: raise lets
\* the 404 through.
DeleteStatus(success) == IF success THEN 200 ELSE 404

\* "AI-generated mind map", line 220.
RootContent ==
    <<"A","I","-","g","e","n","e","r","a","t","e","d"," ",
      "m","i","n","d"," ","m","a","p">>

\* f"Cluster with {n} items", line 232.
BranchContent(n) ==
    <<"C","l","u","s","t","e","r"," ","w","i","t","h"," ">> \o IntToStr(n)
        \o <<" ","i","t","e","m","s">>

\* The NodeCreate calls of save_mindmap_to_db in the order it makes them,
\* lines 217-245: the root, then each child followed by its items.  parent
\* is the position in this list of the call whose node is the parent, 0
\* for the root.
RECURSIVE ChildRequests(_, _, _)
ChildRequests(children, i, made) ==
    IF i > Len(children) THEN <<>>
    ELSE LET items == children[i].children
             branch == [title |-> children[i].node, node_type |-> "branch",
                        parent |-> 1, content |-> BranchContent(Len(items))]
             leaves == [j \in 1..Len(items) |->
                           [title |-> Take(items[j], LeafTitleLength),
                            node_type |-> "leaf",
                            parent |-> made + 1,
                            content |-> items[j]]]
         IN  <<branch>> \o leaves
                 \o ChildRequests(children, i + 1, made + 1 + Len(items))

SaveRequests(mindmap_data) ==
    <<[title |-> mindmap_data.root, node_type |-> "root", parent |-> 0,
       content |-> RootContent]>>
        \o ChildRequests(mindmap_data.children, 1, 1)

\* save_mindmap_to_db, lines 212-248.  Every node is committed by
\* create_node as soon as it is made; a NodeCreate that fails validation
\* raises, and the nodes made before it stay in the table.
save_mindmap_to_db(ns, mindmap_data) ==
    LET reqs  == SaveRequests(mindmap_data)
        bad   == {i \in DOMAIN reqs : ~ValidNodeCreate(reqs[i].title, reqs[i].content)}
        made  == IF bad = {} THEN Len(reqs)
                 ELSE (CHOOSE i \in bad : \A j \in bad : i <= j) - 1
        base  == NextId(ns) - 1
        rows  == [i \in 1..made |->
                     [id |-> base + i,
                      title |-> reqs[i].title,
                      content |-> reqs[i].content,
                      node_type |-> reqs[i].node_type,
                      parent_id |-> IF reqs[i].parent = 0 THEN None
                                    ELSE Some(base + reqs[i].parent)]]
    IN  [nodes |-> ns \o rows,
         outcome |-> IF bad = {}
                     THEN Return([i \in 1..made |-> base + i])
                     ELSE Raise("ValidationError", "save_mindmap_to_db")]

(***************************************************************************)
(* State                                                                   *)
(***************************************************************************)

VARIABLES
    entry,                    \* the function called from outside
    text,                     \* its text argument
    output_file,              \* process_text's output_file argument
    n_clusters_arg,           \* cluster_embeddings' n_clusters argument
    pc,                       \* position inside process_text
    phrases,                  \* process_text: phrases
    embeddings,               \* get_embeddings: the list being filled
    array,                    \* process_text: embeddings (the numpy array)
    cluster_labels,           \* process_text: cluster_labels
    n_clusters,               \* process_text: n_clusters
    cluster_representatives,  \* process_text: cluster_representatives
    classified_labels,        \* classify_clusters: the list being filled
    entities,                 \* process_text: entities
    mindmap,                  \* process_text: mindmap
    files,                    \* the documents written to the file system
    result,                   \* what the called function returned or raised
    all_ok,                   \* history: every remote call so far succeeded
                              \* with a well-formed body
    remote,                   \* how the remote endpoints answer this call
    max_length,               \* summarize_text's max_length argument
    response,                 \* history: the outcome of the request issued by
                              \* a function called on its own, if any
    unclassified,             \* history: the 0-based ids of the clusters
                              \* whose classification request failed
    other,                    \* a second invocation of process_text running
                              \* at the same time, if any
    nodes,                    \* the rows of the node table
    connections,              \* the rows of the nodeconnection table
    last                      \* history: the last request to the API, the
                              \* tables before it and its answer

\* The state of one call into the pipeline.
pipeline_vars ==
    <<entry, text, output_file, n_clusters_arg, pc, phrases, embeddings,
      array, cluster_labels, n_clusters, cluster_representatives,
      classified_labels, entities, mindmap, files, result, all_ok,
      remote, max_length, response, unclassified>>

\* The database and the last request to the API.
db_vars == <<nodes, connections, last>>

vars == <<pipeline_vars, other, db_vars>>

\* Values of variables that hold nothing yet.
Nothing == [kind |-> "none"]
NoArray == [shape |-> <<>>, rows |-> <<>>, numeric |-> TRUE]

\* The default of process_text's output_file parameter (line 312).
DefaultOutputFile == "mindmap.json"

\* The functions called from outside.
Entries ==
    {"process_text", "process_text_to_mindmap", "cluster_embeddings",
     "summarize_text", "extract_entities", "merge_results"}

\* Arguments of summarize_text called on its own: texts of 0, 6, 30, 37, 50
\* and 59 characters, and the two targets merge_results passes (lines 278
\* and 284).
SummarizeTexts ==
    {<<>>, Health, Repeat(<<"a","b","c","d","e">>, 6), LongLabel,
     Repeat(<<"a","b","c","d","e">>, 10), LongPhrase}
MaxLengths == {30, 50}

\* Success responses of the shape section 6 of the specification expects.
WellFormedEmbedding(r) ==
    /\ r.kind = "http" /\ r.status = 200 /\ IsList(r.body)
    /\ \/ r.body.len = EmbeddingDim /\ r.body.items[1] = Number
       \/ r.body.len = 1 /\ r.body.items[1] = Vector(EmbeddingDim)

WellFormedClassification(r) ==
    /\ r.kind = "http" /\ r.status = 200 /\ IsList(r.body) /\ r.body.len > 0
    /\ \A i \in 1..Len(r.body.items) :
           DOMAIN r.body.items[i] = {"label", "score"}

WellFormedSummary(r) ==
    /\ r.kind = "http" /\ r.status = 200 /\ IsList(r.body) /\ r.body.len > 0
    /\ "summary_text" \in DOMAIN r.body.items[1]

WellFormedEntities(r) ==
    /\ r.kind = "http" /\ r.status = 200 /\ IsList(r.body)
    /\ \A i \in 1..Len(r.body.items) :
           {"entity", "word"} \subseteq DOMAIN r.body.items[i]

\* End-to-end scenario C of the specification: a text of 12 phrases, every
\* embedding request answered by one vector, ("Paris", "LOC") found by the
\* named-entity endpoint, each classification answered or failing.
ScenarioPhrases == 12
Paris == <<"P","a","r","i","s">>
ScenarioText == TextPhrases(ScenarioPhrases)

\* How the endpoints answer during one call: "arbitrary" is every outcome
\* for every request, "scenario" the outcomes of scenario C.
RemoteModes == {"arbitrary", "scenario"}

EmbedResponsesOf(mode) ==
    IF mode = "scenario" THEN {Http(200, JsonList(<<Vector(EmbeddingDim)>>))}
    ELSE EmbedResponses

ClassifyResponsesOf(mode) ==
    IF mode = "scenario"
    THEN {Exception,
          Http(200, JsonList(<<[label |-> Business, score |-> 1],
                               [label |-> Health, score |-> 3]>>))}
    ELSE ClassifyResponses

NerResponsesOf(mode) ==
    IF mode = "scenario"
    THEN {Http(200, JsonList(<<[entity |-> LOC, word |-> Paris]>>))}
    ELSE NerResponses

\* No request has been made.
NoRequest ==
    [op |-> "none", a |-> 0, b |-> 0, returned |-> FALSE, raised |-> FALSE,
     existing |-> FALSE, status |-> 0, doc |-> 0, saved |-> <<>>]

\* No second invocation is running.
NoInvocation ==
    [pc |-> "none", text |-> <<>>, mindmap |-> Nothing, result |-> Nothing]

\* The texts of two invocations of process_text that run at the same time.
ConcurrentTexts == {<<TextTwo, TextOne>>, <<TextOne, TextTwo>>}

\* The documents the second invocation can assemble from its text (lines
\* 327-363) when its classification requests fail and no entity is found.
OtherDocuments(t) ==
    LET ps == preprocess_text(t)
        k  == EffectiveK(Len(ps), None)
    IN  {merge_results(ps, l, [i \in 1..k |-> FallbackLabel(i - 1)], <<>>, <<>>) :
             l \in KMeansLabels(Len(ps), k)}

Init ==
    /\ entry = "none"
    /\ text = <<>>
    /\ output_file = None
    /\ n_clusters_arg = None
    /\ pc = "idle"
    /\ phrases = <<>>
    /\ embeddings = <<>>
    /\ array = NoArray
    /\ cluster_labels = <<>>
    /\ n_clusters = 0
    /\ cluster_representatives = <<>>
    /\ classified_labels = <<>>
    /\ entities = <<>>
    /\ mindmap = Nothing
    /\ files = [f \in {DefaultOutputFile} |-> Nothing]
    /\ result = Nothing
    /\ all_ok = TRUE
    /\ remote = "arbitrary"
    /\ max_length = 0
    /\ response = Nothing
    /\ unclassified = {}
    /\ other = NoInvocation
    /\ nodes = <<>>
    /\ connections = <<>>
    /\ last = NoRequest

(***************************************************************************)
(* Calls                                                                   *)
(***************************************************************************)

\* pipeline.process_text(text), as main() and the tests call it.
CallProcessText ==
    /\ pc = "idle"
    /\ \E mode \in RemoteModes :
        /\ remote' = mode
        /\ \E t \in IF mode = "scenario" THEN {ScenarioText} ELSE Texts : text' = t
    /\ entry' = "process_text"
    /\ output_file' = Some(DefaultOutputFile)
    /\ pc' = "preprocess"
    /\ UNCHANGED <<n_clusters_arg, phrases, embeddings, array, cluster_labels,
                   n_clusters, cluster_representatives, classified_labels,
                   entities, mindmap, files, result, all_ok>>
    /\ UNCHANGED <<max_length, response, unclassified>>
    /\ UNCHANGED <<other, db_vars>>

\* Two threads call pipeline.process_text, each with a text of its own and
\* the default output_file.  The first invocation is followed step by
\* step; the second is followed from the point where its document is
\* assembled, since up to there it reads and writes its own locals only.
CallProcessTextTwice ==
    /\ pc = "idle"
    /\ \E pair \in ConcurrentTexts :
        /\ text' = pair[1]
        /\ other' = [NoInvocation EXCEPT !.pc = "running", !.text = pair[2]]
    /\ entry' = "process_text"
    /\ output_file' = Some(DefaultOutputFile)
    /\ remote' = "arbitrary"
    /\ pc' = "preprocess"
    /\ UNCHANGED <<n_clusters_arg, phrases, embeddings, array, cluster_labels,
                   n_clusters, cluster_representatives, classified_labels,
                   entities, mindmap, files, result, all_ok, max_length,
                   response, unclassified>>
    /\ UNCHANGED db_vars

\* service.process_text_to_mindmap(text): line 36 calls
\* self.pipeline.process_text(text, output_file=None).
CallProcessTextToMindmap ==
    /\ pc = "idle"
    /\ \E t \in Texts : text' = t
    /\ remote' = "arbitrary"
    /\ entry' = "process_text_to_mindmap"
    /\ output_file' = None
    /\ pc' = "preprocess"
    /\ UNCHANGED <<n_clusters_arg, phrases, embeddings, array, cluster_labels,
                   n_clusters, cluster_representatives, classified_labels,
                   entities, mindmap, files, result, all_ok>>
    /\ UNCHANGED <<max_length, response, unclassified>>
    /\ UNCHANGED <<other, db_vars>>

\* An array of N vectors of the embedding dimension; np.array([]) for N = 0.
Points(N) ==
    IF N = 0 THEN [shape |-> <<0>>, rows |-> <<>>, numeric |-> TRUE]
    ELSE [shape |-> <<N, EmbeddingDim>>,
          rows |-> [i \in 1..N |-> SyntheticEmbedding(i)],
          numeric |-> TRUE]

\* pipeline.cluster_embeddings(embeddings, n_clusters) called on its own.
CallClusterEmbeddings ==
    /\ pc = "idle"
    /\ \E N \in 0..MaxPoints : array' = Points(N)
    /\ \E k \in {None} \cup {Some(n) : n \in 1..MaxSuppliedK} : n_clusters_arg' = k
    /\ entry' = "cluster_embeddings"
    /\ pc' = "cluster"
    /\ UNCHANGED <<text, output_file, phrases, embeddings, cluster_labels,
                   n_clusters, cluster_representatives, classified_labels,
                   entities, mindmap, files, result, all_ok>>
    /\ UNCHANGED <<remote, max_length, response, unclassified>>
    /\ UNCHANGED <<other, db_vars>>

\* pipeline.summarize_text(text, max_length) called on its own.
CallSummarizeText ==
    /\ pc = "idle"
    /\ \E t \in SummarizeTexts : text' = t
    /\ \E m \in MaxLengths : max_length' = m
    /\ entry' = "summarize_text"
    /\ pc' = "summarize"
    /\ UNCHANGED <<output_file, n_clusters_arg, phrases, embeddings, array,
                   cluster_labels, n_clusters, cluster_representatives,
                   classified_labels, entities, mindmap, files, result, all_ok,
                   remote, response, unclassified>>
    /\ UNCHANGED <<other, db_vars>>

\* pipeline.extract_entities(text) called on its own.
CallExtractEntities ==
    /\ pc = "idle"
    /\ \E t \in {TextShort, TextOne} : text' = t
    /\ entry' = "extract_entities"
    /\ pc' = "ner"
    /\ UNCHANGED <<output_file, n_clusters_arg, phrases, embeddings, array,
                   cluster_labels, n_clusters, cluster_representatives,
                   classified_labels, entities, mindmap, files, result, all_ok,
                   remote, max_length, response, unclassified>>
    /\ UNCHANGED <<other, db_vars>>

\* Arguments of merge_results called on its own: MaxFullAssign short
\* phrases, any assignment of them to the ids below MaxSuppliedK, the first
\* 0 to MaxSuppliedK labels of a list of distinct labels, no entity or one.
MergeTexts == preprocess_text(TextPhrases(MaxFullAssign))
MergeLabels == [i \in 1..MaxSuppliedK |-> <<"L">> \o IntToStr(i)]
MergeEntities == {<<>>, <<[text |-> Paris, label |-> LOC]>>}

\* pipeline.merge_results(texts, cluster_labels, classified_labels,
\* entities) called on its own.
CallMergeResults ==
    /\ pc = "idle"
    /\ phrases' = MergeTexts
    /\ \E l \in [1..Len(MergeTexts) -> 0..(MaxSuppliedK - 1)] : cluster_labels' = l
    /\ \E n \in 0..MaxSuppliedK : classified_labels' = Take(MergeLabels, n)
    /\ \E e \in MergeEntities : entities' = e
    /\ entry' = "merge_results"
    /\ pc' = "merge"
    /\ UNCHANGED <<text, output_file, n_clusters_arg, embeddings, array,
                   n_clusters, cluster_representatives, mindmap, files, result,
                   all_ok, remote, max_length, response, unclassified>>
    /\ UNCHANGED <<other, db_vars>>

\* The called function finishes: process_text (or cluster_embeddings)
\* returns or raises; process_text_to_mindmap answers with a document made
\* from process_text's outcome.
Finish(outcome) ==
    /\ result' = IF entry = "process_text_to_mindmap"
                 THEN process_text_to_mindmap(text, outcome)
                 ELSE outcome
    /\ pc' = "done"

(***************************************************************************)
(* MindMapPipeline.process_text, step by step                              *)
(***************************************************************************)

\* Line 327.
Preprocess ==
    /\ pc = "preprocess"
    /\ phrases' = preprocess_text(text)
    /\ pc' = "embed"
    /\ UNCHANGED <<entry, text, output_file, n_clusters_arg, embeddings, array,
                   cluster_labels, n_clusters, cluster_representatives,
                   classified_labels, entities, mindmap, files, result, all_ok>>
    /\ UNCHANGED <<remote, max_length, response, unclassified>>
    /\ UNCHANGED <<other, db_vars>>

\* get_embeddings, lines 78-99: one request, one vector appended.
EmbedOne ==
    /\ pc = "embed"
    /\ Len(embeddings) < Len(phrases)
    /\ \E r \in EmbedResponsesOf(remote) :
        /\ embeddings' = Append(embeddings, EmbeddingFor(Len(embeddings) + 1, r))
        /\ all_ok' = (all_ok /\ WellFormedEmbedding(r))
    /\ UNCHANGED <<entry, text, output_file, n_clusters_arg, pc, phrases, array,
                   cluster_labels, n_clusters, cluster_representatives,
                   classified_labels, entities, mindmap, files, result>>
    /\ UNCHANGED <<remote, max_length, response, unclassified>>
    /\ UNCHANGED <<other, db_vars>>

\* get_embeddings, line 101: the list becomes an array, or np.array raises.
EmbedReturn ==
    /\ pc = "embed"
    /\ Len(embeddings) = Len(phrases)
    /\ \E out \in NpArray(embeddings) :
        IF out.kind = "raise"
        THEN Finish(out) /\ UNCHANGED array
        ELSE array' = out.value /\ pc' = "cluster" /\ UNCHANGED result
    /\ embeddings' = <<>>
    /\ UNCHANGED <<entry, text, output_file, n_clusters_arg, phrases,
                   cluster_labels, n_clusters, cluster_representatives,
                   classified_labels, entities, mindmap, files, all_ok>>
    /\ UNCHANGED <<remote, max_length, response, unclassified>>
    /\ UNCHANGED <<other, db_vars>>

\* Lines 337-351: cluster_embeddings, then one representative per cluster.
\* The array is not read after line 337 and is forgotten there.
Cluster ==
    /\ pc = "cluster"
    /\ entry # "cluster_embeddings"
    /\ \E out \in cluster_embeddings(array, n_clusters_arg) :
        IF out.kind = "raise"
        THEN /\ Finish(out)
             /\ UNCHANGED <<cluster_labels, n_clusters, cluster_representatives>>
        ELSE /\ cluster_labels' = out.value.cluster_labels
             /\ n_clusters' = out.value.n_clusters
             /\ cluster_representatives' =
                    Representatives(phrases, out.value.cluster_labels,
                                    out.value.n_clusters)
             /\ pc' = "classify"
             /\ UNCHANGED result
    /\ array' = NoArray
    /\ UNCHANGED <<entry, text, output_file, n_clusters_arg, phrases, embeddings,
                   classified_labels, entities, mindmap, files, all_ok>>
    /\ UNCHANGED <<remote, max_length, response, unclassified>>
    /\ UNCHANGED <<other, db_vars>>

\* cluster_embeddings called on its own returns or raises.
ClusterOnly ==
    /\ pc = "cluster"
    /\ entry = "cluster_embeddings"
    /\ \E out \in cluster_embeddings(array, n_clusters_arg) :
        /\ Finish(out)
        /\ IF out.kind = "raise"
           THEN UNCHANGED <<cluster_labels, n_clusters>>
           ELSE /\ cluster_labels' = out.value.cluster_labels
                /\ n_clusters' = out.value.n_clusters
    /\ UNCHANGED <<entry, text, output_file, n_clusters_arg, phrases, embeddings,
                   array, cluster_representatives, classified_labels, entities,
                   mindmap, files, all_ok>>
    /\ UNCHANGED <<remote, max_length, response, unclassified>>
    /\ UNCHANGED <<other, db_vars>>

\* classify_clusters, lines 147-171: one request, one label appended.
ClassifyOne ==
    /\ pc = "classify"
    /\ Len(classified_labels) < Len(cluster_representatives)
    /\ \E r \in ClassifyResponsesOf(remote) :
        /\ classified_labels' =
               Append(classified_labels, ClassifiedLabel(Len(classified_labels), r))
        /\ all_ok' = (all_ok /\ WellFormedClassification(r))
        /\ unclassified' = IF WellFormedClassification(r) THEN unclassified
                           ELSE unclassified \cup {Len(classified_labels)}
    /\ UNCHANGED <<entry, text, output_file, n_clusters_arg, pc, phrases,
                   embeddings, array, cluster_labels, n_clusters,
                   cluster_representatives, entities, mindmap, files, result>>
    /\ UNCHANGED <<remote, max_length, response>>
    /\ UNCHANGED <<other, db_vars>>

\* classify_clusters, line 173.
ClassifyReturn ==
    /\ pc = "classify"
    /\ Len(classified_labels) = Len(cluster_representatives)
    /\ pc' = "ner"
    /\ UNCHANGED <<entry, text, output_file, n_clusters_arg, phrases, embeddings,
                   array, cluster_labels, n_clusters, cluster_representatives,
                   classified_labels, entities, mindmap, files, result, all_ok>>
    /\ UNCHANGED <<remote, max_length, response, unclassified>>
    /\ UNCHANGED <<other, db_vars>>

\* Line 358.
ExtractEntities ==
    /\ pc = "ner"
    /\ entry # "extract_entities"
    /\ \E r \in NerResponsesOf(remote) :
        /\ entities' = extract_entities(r)
        /\ all_ok' = (all_ok /\ WellFormedEntities(r))
    /\ pc' = "merge"
    /\ UNCHANGED <<entry, text, output_file, n_clusters_arg, phrases, embeddings,
                   array, cluster_labels, n_clusters, cluster_representatives,
                   classified_labels, mindmap, files, result>>
    /\ UNCHANGED <<remote, max_length, response, unclassified>>
    /\ UNCHANGED <<other, db_vars>>

\* Line 363: merge_results, with one outcome per summarization request.
Merge ==
    /\ pc = "merge"
    /\ entry # "merge_results"
    /\ \E responses \in [SummarySites(phrases, cluster_labels, classified_labels)
                            -> SummaryResponses] :
        /\ mindmap' = merge_results(phrases, cluster_labels, classified_labels,
                                    entities, responses)
        /\ all_ok' = (all_ok /\ \A site \in DOMAIN responses :
                                    WellFormedSummary(responses[site]))
    /\ pc' = "save"
    /\ UNCHANGED <<entry, text, output_file, n_clusters_arg, phrases, embeddings,
                   array, cluster_labels, n_clusters, cluster_representatives,
                   classified_labels, entities, files, result>>
    /\ UNCHANGED <<remote, max_length, response, unclassified>>
    /\ UNCHANGED <<other, db_vars>>

\* Lines 367-371: open(output_file, 'w') raises TypeError for None; else the
\* document is written and returned.
Save ==
    /\ pc = "save"
    /\ IF output_file = None
       THEN Finish(Raise("TypeError", "process_text")) /\ UNCHANGED files
       ELSE /\ files' = [files EXCEPT ![output_file[1]] = mindmap]
            /\ Finish(Return(mindmap))
    /\ UNCHANGED <<entry, text, output_file, n_clusters_arg, phrases, embeddings,
                   array, cluster_labels, n_clusters, cluster_representatives,
                   classified_labels, entities, mindmap, all_ok>>
    /\ UNCHANGED <<remote, max_length, response, unclassified>>
    /\ UNCHANGED <<other, db_vars>>

\* summarize_text called on its own, lines 186-210: the text is returned
\* as it is, or one request is posted and its outcome decides.
Summarize ==
    /\ pc = "summarize"
    /\ \E r \in SummaryResponses :
        /\ response' = IF SummaryRequested(text, max_length) THEN r ELSE Nothing
        /\ Finish(Return(summarize_text(text, max_length, r)))
    /\ UNCHANGED <<entry, text, output_file, n_clusters_arg, phrases, embeddings,
                   array, cluster_labels, n_clusters, cluster_representatives,
                   classified_labels, entities, mindmap, files, all_ok, remote,
                   max_length, unclassified>>
    /\ UNCHANGED <<other, db_vars>>

\* extract_entities called on its own, lines 220-247.
ExtractOnly ==
    /\ pc = "ner"
    /\ entry = "extract_entities"
    /\ \E r \in NerResponses :
        /\ response' = r
        /\ entities' = extract_entities(r)
        /\ Finish(Return(extract_entities(r)))
    /\ UNCHANGED <<entry, text, output_file, n_clusters_arg, phrases, embeddings,
                   array, cluster_labels, n_clusters, cluster_representatives,
                   classified_labels, mindmap, files, all_ok, remote, max_length,
                   unclassified>>
    /\ UNCHANGED <<other, db_vars>>

\* merge_results called on its own, lines 263-310.
MergeOnly ==
    /\ pc = "merge"
    /\ entry = "merge_results"
    /\ \E responses \in [SummarySites(phrases, cluster_labels, classified_labels)
                            -> SummaryResponses] :
        Finish(Return(merge_results(phrases, cluster_labels, classified_labels,
                                    entities, responses)))
    /\ UNCHANGED <<entry, text, output_file, n_clusters_arg, phrases, embeddings,
                   array, cluster_labels, n_clusters, cluster_representatives,
                   classified_labels, entities, mindmap, files, all_ok, remote,
                   max_length, response, unclassified>>
    /\ UNCHANGED <<other, db_vars>>

\* A request is outstanding: requests.post has been called (lines 80-84,
\* 149-153, 222-226) and has not returned yet.
RequestOutstanding ==
    \/ pc = "embed" /\ Len(embeddings) < Len(phrases)
    \/ pc = "classify" /\ Len(classified_labels) < Len(cluster_representatives)
    \/ pc = "ner" /\ entry # "extract_entities"

\* The remote side never answers.  requests.post is called without a
\* timeout argument and nothing around it (process_text, the service, the
\* endpoint) sets a deadline or cancels, so the call blocks for ever.
RemoteHangs ==
    /\ RequestOutstanding
    /\ pc' = "blocked"
    /\ UNCHANGED <<entry, text, output_file, n_clusters_arg, phrases, embeddings,
                   array, cluster_labels, n_clusters, cluster_representatives,
                   classified_labels, entities, mindmap, files, result, all_ok,
                   remote, max_length, response, unclassified>>
    /\ UNCHANGED <<other, db_vars>>

\* The second invocation, lines 327-363: its document is assembled.
OtherAssemble ==
    /\ other.pc = "running"
    /\ \E d \in OtherDocuments(other.text) :
        other' = [other EXCEPT !.mindmap = d, !.pc = "save"]
    /\ UNCHANGED <<pipeline_vars, db_vars>>

\* The second invocation, lines 367-371: it writes its document to the
\* default output file and returns it.
OtherSave ==
    /\ other.pc = "save"
    /\ files' = [files EXCEPT ![DefaultOutputFile] = other.mindmap]
    /\ other' = [other EXCEPT !.result = Return(other.mindmap), !.pc = "done"]
    /\ UNCHANGED <<entry, text, output_file, n_clusters_arg, pc, phrases,
                   embeddings, array, cluster_labels, n_clusters,
                   cluster_representatives, classified_labels, entities,
                   mindmap, result, all_ok, remote, max_length, response,
                   unclassified>>
    /\ UNCHANGED db_vars

Next ==
    \/ CallProcessText
    \/ CallProcessTextTwice
    \/ OtherAssemble
    \/ OtherSave
    \/ RemoteHangs
    \/ CallExtractEntities
    \/ CallMergeResults
    \/ ExtractOnly
    \/ MergeOnly
    \/ CallSummarizeText
    \/ Summarize
    \/ CallProcessTextToMindmap
    \/ CallClusterEmbeddings
    \/ Preprocess
    \/ EmbedOne
    \/ EmbedReturn
    \/ Cluster
    \/ ClusterOnly
    \/ ClassifyOne
    \/ ClassifyReturn
    \/ ExtractEntities
    \/ Merge
    \/ Save

Spec == Init /\ [][Next]_vars

\* One invocation of process_text_to_mindmap.  The interpreter runs the
\* invocation whenever it has a step to take, hence the weak fairness of
\* LiveSpec; a blocked request has no step.
LiveNext ==
    \/ CallProcessTextToMindmap
    \/ Preprocess
    \/ EmbedOne
    \/ EmbedReturn
    \/ Cluster
    \/ ClassifyOne
    \/ ClassifyReturn
    \/ ExtractEntities
    \/ Merge
    \/ Save
    \/ RemoteHangs

\* The invocation has a step to take: ENABLED <<LiveNext>>_vars written as a
\* state predicate.  Before the call the call itself is the step; after
\* the return, and while a request blocks, there is none.
Runnable == pc \notin {"done", "blocked"}

\* Weak fairness of LiveNext, with Runnable for its enabling condition.
RunsWhileRunnable == []<>(~Runnable) \/ []<><<LiveNext>>_vars

LiveSpec ==
    /\ Init /\ [][LiveNext]_vars
    /\ WF_vars(CallProcessTextToMindmap)
    /\ RunsWhileRunnable

(***************************************************************************)
(* The node store's requests                                               *)
(***************************************************************************)

\* The largest id a node gets and the largest number of rows of the
\* connection table.
MaxNodeId == 3
MaxConnections == 2

\* The ids named by delete, link and unlink requests: stored and missing.
RequestIds == {1, 2}

\* A sentence of 1001 characters: "long long ... long !".
OverlongLength == 1001
TextOverlong ==
    [i \in 1..OverlongLength |->
        IF i = OverlongLength THEN "!"
        ELSE <<"l","o","n","g"," ">>[((i - 1) % 5) + 1]]

\* The texts posted to /ai/generate-mindmap.
SaveTexts == <<TextOne, TextOverlong, <<>>>>

\* The document process_text_to_mindmap answers for a text: process_text is
\* called with output_file=None (ai_pipeline.py line 36) and raises at line
\* 367 of mindmap_pipeline.py, so it is the fallback document of the text.
ServiceDocument(t) ==
    LET d == process_text_to_mindmap(t, Raise("TypeError", "process_text")).value
    IN  [d EXCEPT !.children = SubSeq(d.children, 1, Len(d.children))]


\* POST /nodes with a title only (main.py, create_node): a leaf without
\* parent and content.
CreateNode ==
    /\ NextId(nodes) <= MaxNodeId
    /\ nodes' = create_node(nodes, NodeCreate(<<"n">>, "leaf", None, None))
    /\ last' = [NoRequest EXCEPT !.op = "create", !.a = NextId(nodes),
                                 !.returned = TRUE, !.status = 200]
    /\ UNCHANGED <<pipeline_vars, other, connections>>

\* DELETE /nodes/{node_id}, main.py 103-115.
DeleteNode ==
    /\ \E node_id \in RequestIds :
        LET r == delete_node(nodes, connections, node_id)
        IN  /\ nodes' = r.nodes
            /\ connections' = r.connections
            /\ last' = [NoRequest EXCEPT !.op = "delete", !.a = node_id,
                                         !.returned = r.returned,
                                         !.status = DeleteStatus(r.returned)]
    /\ UNCHANGED <<pipeline_vars, other>>

\* POST /nodes/{node_id}/link/{target_id}, main.py 155-165.  The database
\* may raise (raised) instead of answering the service.
LinkNodes ==
    /\ \E source_id \in RequestIds, target_id \in RequestIds, raised \in BOOLEAN :
        LET r == link_nodes(nodes, connections, source_id, target_id)
        IN  /\ Len(r.connections) <= MaxConnections
            /\ connections' = IF raised THEN connections ELSE r.connections
            /\ last' = [NoRequest EXCEPT
                            !.op = "link", !.a = source_id, !.b = target_id,
                            !.raised = raised,
                            !.returned = ~raised /\ r.returned,
                            !.existing = ~raised /\ r.existing,
                            !.status = LinkStatus(raised, r.returned)]
    /\ UNCHANGED <<pipeline_vars, other, nodes>>

\* DELETE /nodes/{node_id}/unlink/{target_id}, main.py 167-177.
UnlinkNodes ==
    /\ \E source_id \in RequestIds, target_id \in RequestIds, raised \in BOOLEAN :
        LET r == unlink_nodes(connections, source_id, target_id)
        IN  /\ connections' = IF raised THEN connections ELSE r.connections
            /\ last' = [NoRequest EXCEPT
                            !.op = "unlink", !.a = source_id, !.b = target_id,
                            !.raised = raised,
                            !.returned = ~raised /\ r.returned,
                            !.existing = ~raised /\ r.returned,
                            !.status = LinkStatus(raised, r.returned)]
    /\ UNCHANGED <<pipeline_vars, other, nodes>>

\* POST /ai/generate-mindmap, main.py 118-139: the document of
\* process_text_to_mindmap is saved.
GenerateMindmap ==
    /\ NextId(nodes) <= MaxNodeId
    /\ \E i \in DOMAIN SaveTexts :
        LET d == ServiceDocument(SaveTexts[i])
            r == save_mindmap_to_db(nodes, d)
        IN  /\ NextId(nodes) - 1 + Len(SaveRequests(d)) <= MaxNodeId
            /\ nodes' = r.nodes
            /\ last' = [NoRequest EXCEPT
                            !.op = "save", !.doc = i,
                            !.raised = (r.outcome.kind = "raise"),
                            !.returned = (r.outcome.kind = "return"),
                            !.saved = IF r.outcome.kind = "return"
                                      THEN r.outcome.value ELSE <<>>,
                            !.status = IF r.outcome.kind = "return"
                                       THEN 200 ELSE 500]
    /\ UNCHANGED <<pipeline_vars, other, connections>>

DbNext ==
    \/ CreateNode
    \/ DeleteNode
    \/ LinkNodes
    \/ UnlinkNodes
    \/ GenerateMindmap

DbSpec == Init /\ [][DbNext]_vars

(***************************************************************************)
(* Properties                                                              *)
(***************************************************************************)

\* x is a list.
IsSequence(x) == DOMAIN x = 1..Len(x)

\* The call of process_text_to_mindmap has finished.
ServiceDone == entry = "process_text_to_mindmap" /\ pc = "done"

\* process_text or process_text_to_mindmap has returned a document.
DocumentReturned ==
    /\ entry \in {"process_text", "process_text_to_mindmap"}
    /\ pc = "done"
    /\ result.kind = "return"

\* process_text has assembled its document (lines 363-371).
Assembled ==
    /\ entry \in {"process_text", "process_text_to_mindmap"}
    /\ pc \in {"save", "done"}
    /\ mindmap # Nothing

\* C1: whatever the text and the outcomes of the remote calls,
\* process_text_to_mindmap does not raise: it returns a document whose root
\* is "Mind Map", whose children are a list and whose ai_processed is a
\* boolean.
C1_AlwaysValidDocument ==
    ServiceDone =>
        /\ result.kind = "return"
        /\ result.value.root = MindMapRoot
        /\ IsSequence(result.value.children)
        /\ "ai_processed" \in DOMAIN result.value
        /\ result.value.ai_processed \in BOOLEAN

\* C1 witness: process_text_to_mindmap has answered a text of two phrases
\* or more although a remote call failed on the way.
C1_Witness ==
    /\ ServiceDone
    /\ Len(phrases) >= 2
    /\ ~all_ok
    /\ result.kind = "return"

\* C2: when the text yields at least two phrases and every remote call
\* returns a well-formed success response, process_text_to_mindmap returns
\* the tree the pipeline assembled, with ai_processed = true and without a
\* fallback_mode field.
C2_AiPathOnSuccess ==
    (ServiceDone /\ Len(phrases) >= 2 /\ all_ok) =>
        /\ result.kind = "return"
        /\ result.value.ai_processed = TRUE
        /\ "fallback_mode" \notin DOMAIN result.value
        /\ mindmap # Nothing
        /\ result.value.children = mindmap.children

\* get_embeddings has returned to process_text.
EmbeddingsReturned ==
    entry \in {"process_text", "process_text_to_mindmap"} /\ pc = "cluster"

\* process_text has ended by an exception raised inside the function at.
RaisedAt(at) ==
    /\ entry = "process_text"
    /\ pc = "done"
    /\ result.kind = "raise"
    /\ result.at = at

\* C3: get_embeddings returns exactly one vector per phrase, the i-th vector
\* being the one made for the i-th phrase, for every mix of outcomes; no
\* outcome aborts it.
C3_OneVectorPerPhrase ==
    /\ EmbeddingsReturned =>
           /\ Len(array.rows) = Len(phrases)
           /\ \A i \in 1..Len(array.rows) : array.rows[i].of = i
    /\ ~RaisedAt("get_embeddings")

\* C4: a response body is used only if it is a vector of 384 numbers or a
\* one-element list holding one; every other outcome gives a synthetic
\* vector, so that every vector handed to the clusterer has dimension 384,
\* and get_embeddings never raises.
C4_OnlyWellFormedVectorsUsed ==
    /\ EmbeddingsReturned =>
           \A i \in 1..Len(array.rows) :
               array.rows[i].shape = Vector(EmbeddingDim)
    /\ (pc = "embed" =>
           \A i \in 1..Len(embeddings) :
               embeddings[i].shape = Vector(EmbeddingDim))
    /\ ~RaisedAt("get_embeddings")

\* clamp(x, lo, hi)
Clamp(x, lo, hi) == Max(lo, Min(x, hi))

\* The cluster count the specification gives for N points.
SpecifiedK(N) == Min(Clamp(N \div 2, 2, Min(10, N)), N)

\* C5: without an n_clusters argument, the cluster count cluster_embeddings
\* returns for N >= 1 points is min(clamp(N // 2, 2, min(10, N)), N), which
\* lies between 1 and min(10, N).
C5_EffectiveClusterCount ==
    /\ (entry = "cluster_embeddings" /\ pc = "done"
        /\ n_clusters_arg = None /\ array.shape[1] >= 1) =>
           /\ result.kind = "return"
           /\ result.value.n_clusters = SpecifiedK(array.shape[1])
           /\ 1 <= result.value.n_clusters
           /\ result.value.n_clusters <= Min(10, array.shape[1])
           /\ Len(result.value.cluster_labels) = array.shape[1]
    /\ (entry \in {"process_text", "process_text_to_mindmap"}
        /\ pc \in {"classify", "ner", "merge", "save"}) =>
           /\ n_clusters = SpecifiedK(Len(phrases))
           /\ 1 <= n_clusters
           /\ n_clusters <= Min(10, Len(phrases))

\* C5 witness: 20 points or more are given the largest count, 10.
C5_Witness ==
    /\ entry = "cluster_embeddings" /\ pc = "done"
    /\ n_clusters_arg = None
    /\ array.shape[1] >= 20
    /\ result.kind = "return"
    /\ result.value.n_clusters = 10

\* C6: for N = 0 vectors the cluster step calls no KMeans, raises nothing
\* and returns an empty assignment with k = 0, and process_text goes on to
\* assemble the tree with zero phrases.
C6_EmptyInputSpecialCased ==
    /\ (entry = "cluster_embeddings" /\ pc = "done" /\ array.shape[1] = 0) =>
           /\ result.kind = "return"
           /\ result.value.n_clusters = 0
           /\ result.value.cluster_labels = <<>>
    /\ (entry = "process_text" /\ pc = "done" /\ phrases = <<>>) =>
           /\ result.kind = "return"
           /\ mindmap # Nothing

\* C7: for a text that segments into zero phrases the pipeline entry point
\* returns, without raising, a document whose children list is empty.
C7_ZeroPhrasesGiveNoChildren ==
    (/\ entry \in {"process_text", "process_text_to_mindmap"}
     /\ pc = "done"
     /\ preprocess_text(text) = <<>>) =>
        /\ result.kind = "return"
        /\ result.value.children = <<>>

\* C8: every child node of every document returned by process_text or
\* process_text_to_mindmap has at most 5 items.
C8_AtMostFiveItems ==
    DocumentReturned =>
        \A i \in 1..Len(result.value.children) :
            Len(result.value.children[i].children) <= 5

\* The number of positions of seq holding v.
Count(seq, v) == Cardinality({i \in 1..Len(seq) : seq[i] = v})

\* C8 witness: process_text has returned a document for an assignment that
\* puts more than 5 phrases into one cluster, with more than 5 entities of
\* one category.
C8_Witness ==
    /\ DocumentReturned
    /\ entry = "process_text"
    /\ \E c \in 0..(n_clusters - 1) : Count(cluster_labels, c) > 5
    /\ \E e \in Range(entities) :
           Cardinality({i \in 1..Len(entities) : entities[i].label = e.label}) > 5

\* node is the node of cluster c: its items are the first 5 phrases assigned
\* to c (phrases short enough to be left as they are).
NodeOfCluster(node, c) ==
    LET members == MembersOf(c, phrases, cluster_labels)
    IN  members # <<>> /\ node.children = Take(members, 5)

\* The position of the first phrase assigned to cluster c.
FirstPosition(c) ==
    CHOOSE j \in 1..Len(cluster_labels) :
        /\ cluster_labels[j] = c
        /\ \A m \in 1..(j - 1) : cluster_labels[m] # c

\* C9 as stated: merge_results emits the cluster nodes in ascending order of
\* cluster id, for every cluster assignment.
C9_AscendingClusterIds ==
    Assembled =>
        \A i, j \in 1..Len(mindmap.children) :
            \A c, d \in 0..(n_clusters - 1) :
                (/\ i < j /\ c # d
                 /\ NodeOfCluster(mindmap.children[i], c)
                 /\ NodeOfCluster(mindmap.children[j], d)) => c < d

\* C9 as amended: merge_results emits the cluster nodes in the order in
\* which their cluster ids first occur in the cluster assignment.
C9_FirstOccurrenceOrder ==
    Assembled =>
        \A i, j \in 1..Len(mindmap.children) :
            \A c, d \in 0..(n_clusters - 1) :
                (/\ i < j /\ c # d
                 /\ NodeOfCluster(mindmap.children[i], c)
                 /\ NodeOfCluster(mindmap.children[j], d))
                    => FirstPosition(c) < FirstPosition(d)

\* C9 witness: a document is assembled in which the node of a higher
\* cluster id stands before the node of a lower one.
C9_Witness ==
    /\ Assembled
    /\ \E i, j \in 1..Len(mindmap.children) :
           \E c, d \in 0..(n_clusters - 1) :
               /\ i < j /\ c > d
               /\ NodeOfCluster(mindmap.children[i], c)
               /\ NodeOfCluster(mindmap.children[j], d)

\* The categories of the entity list.
Categories == {entities[i].label : i \in 1..Len(entities)}

\* The positions of the entity list that hold category cat.
PositionsOf(cat) == {i \in 1..Len(entities) : entities[i].label = cat}

\* The positions of the document's children named "Entities (cat)".
EntityNodePositions(cat) ==
    {i \in 1..Len(mindmap.children) :
        mindmap.children[i].node = EntityNodeName(cat)}

\* The least element of a non-empty set of integers.
Least(S) == CHOOSE x \in S : \A y \in S : x <= y

\* C10: with a non-empty entity list the document has exactly one node
\* "Entities (<category>)" per category, these nodes are its last children
\* (after all cluster nodes), in the order in which their categories first
\* occur in the entity list, and each holds the first 5 entity texts of its
\* category in list order.
C10_EntityNodes ==
    (Assembled /\ entities # <<>>) =>
        LET n == Len(mindmap.children)
            D == Cardinality(Categories)
        IN  /\ n >= D
            /\ \A cat \in Categories :
                   /\ Cardinality(EntityNodePositions(cat)) = 1
                   /\ Least(EntityNodePositions(cat)) > n - D
            /\ \A c1, c2 \in Categories :
                   Least(PositionsOf(c1)) < Least(PositionsOf(c2)) =>
                       Least(EntityNodePositions(c1)) < Least(EntityNodePositions(c2))
            /\ \A cat \in Categories :
                   LET items == mindmap.children[Least(EntityNodePositions(cat))].children
                       pos   == PositionsOf(cat)
                   IN  /\ Len(items) = Min(5, Cardinality(pos))
                       /\ \A m \in 1..Len(items) :
                              \E p \in pos :
                                  /\ Cardinality({q \in pos : q < p}) = m - 1
                                  /\ items[m] = entities[p].text

\* C10 witness: a document with cluster nodes is assembled from an entity
\* list of two interleaved categories, one of them with more than 5
\* entities.
C10_Witness ==
    /\ Assembled
    /\ Cardinality(Categories) >= 2
    /\ \E cat \in Categories : Cardinality(PositionsOf(cat)) > 5
    /\ Len(mindmap.children) > Cardinality(Categories)

\* The fallback document has n children, named "Topic 1" .. "Topic n".
TopicChildren(doc, n) ==
    /\ Len(doc.children) = n
    /\ \A i \in 1..n : doc.children[i].node = <<"T","o","p","i","c"," ">> \o IntToStr(i)

\* C11: for every input text the fallback document that
\* process_text_to_mindmap returns has at most 3 "Topic N" children: the
\* sentences are partitioned into 3 contiguous chunks.
C11_AtMostThreeTopics ==
    (ServiceDone /\ ~result.value.ai_processed) =>
        \E n \in 0..3 : TopicChildren(result.value, n)

\* process_text has assembled the document of scenario C: a text of 12
\* phrases, ("Paris", "LOC") returned by the named-entity endpoint.
ScenarioAssembled ==
    /\ Assembled
    /\ entry = "process_text"
    /\ remote = "scenario"

\* The node "Entities (LOC)" holding "Paris".
ParisNode ==
    [node |-> <<"E","n","t","i","t","i","e","s"," ","(","L","O","C",")">>,
     children |-> <<Paris>>]

\* The document's children before the last are cluster nodes, each of a
\* cluster id of its own, and its last child is the node of "Paris".
ClustersThenParis ==
    LET n == Len(mindmap.children)
    IN  /\ n >= 1
        /\ mindmap.children[n] = ParisNode
        /\ \A i \in 1..(n - 1) :
               /\ mindmap.children[i].node # ParisNode.node
               /\ \E c \in 0..(n_clusters - 1) :
                      NodeOfCluster(mindmap.children[i], c)
        /\ \A i, j \in 1..(n - 1) :
               i # j => mindmap.children[i].children # mindmap.children[j].children

\* C12 as stated: in scenario C the document has exactly 2 cluster-derived
\* children followed by exactly one "Entities (LOC)" child as the last
\* child.
C12_TwoClustersThenEntities ==
    ScenarioAssembled =>
        Len(mindmap.children) = 3 /\ ClustersThenParis

\* C12, amended: in scenario C the clusterer asks for (number of phrases)
\* div 2 = 6 clusters; the document has one cluster-derived child per
\* cluster id that was assigned, between 1 and 6 of them, followed by
\* exactly one "Entities (LOC)" child as the last child.
C12_ClustersThenEntities ==
    ScenarioAssembled =>
        /\ ClustersThenParis
        /\ Len(mindmap.children) - 1 = Cardinality(Range(cluster_labels))
        /\ Len(mindmap.children) - 1 \in 1..(Len(phrases) \div 2)

\* C12 witness: the document of scenario C is assembled with 6 cluster
\* nodes before the node of "Paris".
C12_Witness ==
    /\ ScenarioAssembled
    /\ Len(phrases) = ScenarioPhrases
    /\ Len(mindmap.children) = 7
    /\ mindmap.children[7] = ParisNode

\* summarize_text, called on its own, has returned or raised.
SummarizeDone == entry = "summarize_text" /\ pc = "done"

\* C13: summarize_text(text, max_length) returns text unchanged and issues
\* no remote request whenever len(text) <= max_length.
C13_ShortTextUnchanged ==
    (SummarizeDone /\ Len(text) <= max_length) =>
        /\ result = Return(text)
        /\ response = Nothing

\* C13 witness: summarize_text has returned for a text of exactly
\* max_length characters.
C13_Witness ==
    /\ SummarizeDone
    /\ Len(text) = max_length
    /\ result = Return(text)

\* The summarization request was made and did not yield a summary:
\* exception, non-200 status, non-list or empty-list body, or a first item
\* without 'summary_text'.
SummaryFailed ==
    /\ response # Nothing
    /\ \/ response.kind = "exception"
       \/ /\ response.kind = "http"
          /\ \/ response.status # 200
             \/ ~IsList(response.body)
             \/ response.body.len = 0
             \/ "summary_text" \notin DOMAIN response.body.items[1]

\* C14: when len(text) > max_length and the summarization request fails in
\* any way, summarize_text returns exactly text[:max_length] + "..." and
\* does not raise.
C14_FallbackTruncation ==
    (SummarizeDone /\ Len(text) > max_length /\ SummaryFailed) =>
        result = Return(SubSeq(text, 1, max_length) \o <<".", ".", ".">>)

\* C14 witness: summarize_text has returned for a text longer than
\* max_length whose request was answered 200 with a list whose first item
\* has no 'summary_text'.
C14_Witness ==
    /\ SummarizeDone
    /\ Len(text) > max_length
    /\ response.kind = "http"
    /\ response.status = 200
    /\ IsList(response.body)
    /\ response.body.len > 0
    /\ "summary_text" \notin DOMAIN response.body.items[1]
    /\ result.kind = "return"

\* C15: whatever the text and the outcome of the request, summarize_text
\* returns at most max_length characters; so in an assembled document every
\* cluster name has at most 30 characters and every cluster item at most 50.
C15_LengthBounded ==
    /\ SummarizeDone => Len(result.value) <= max_length
    /\ Assembled =>
           \A i \in 1..Len(mindmap.children) :
               /\ Len(mindmap.children[i].node) <= 30
               /\ \A j \in 1..Len(mindmap.children[i].children) :
                      Len(mindmap.children[i].children[j]) <= 50

\* C16: when the classification request for the cluster with 0-based id c
\* fails, the node emitted for that cluster is named exactly "Cluster {c+1}",
\* whatever the outcomes for the other clusters and wherever the node stands
\* among the children.
C16_FallbackNameFollowsClusterId ==
    Assembled =>
        \A c \in unclassified :
            \A i \in 1..Len(mindmap.children) :
                NodeOfCluster(mindmap.children[i], c) =>
                    mindmap.children[i].node =
                        <<"C","l","u","s","t","e","r"," ">> \o IntToStr(c + 1)

\* C16 witness: a document is assembled whose first child is the node of a
\* cluster with id >= 1 whose classification failed, named "Cluster <id+1>",
\* followed by the node of a lower id whose classification succeeded.
C16_Witness ==
    /\ Assembled
    /\ \E c \in unclassified, d \in (0..(n_clusters - 1)) \ unclassified :
           /\ c > d
           /\ NodeOfCluster(mindmap.children[1], c)
           /\ mindmap.children[1].node = classified_labels[c + 1]
           /\ \E j \in 2..Len(mindmap.children) :
                  /\ NodeOfCluster(mindmap.children[j], d)
                  /\ mindmap.children[j].node = Health

\* classify_clusters has returned to process_text.
Classified ==
    /\ entry \in {"process_text", "process_text_to_mindmap"}
    /\ pc \in {"ner", "merge", "save"} \/ (pc = "done" /\ mindmap # Nothing)

\* C17: classify_clusters returns exactly one label per representative,
\* index-aligned, for every mix of per-cluster outcomes: in process_text the
\* number of labels is the effective k, the label at index c is "Cluster
\* {c+1}" exactly when the request for cluster c failed, and merge_results
\* emits a node for every cluster id that was assigned.
C17_OneLabelPerCluster ==
    /\ Classified =>
           /\ Len(classified_labels) = Len(cluster_representatives)
           /\ Len(classified_labels) = n_clusters
           /\ \A c \in 0..(n_clusters - 1) :
                  c \in unclassified <=>
                      classified_labels[c + 1] =
                          <<"C","l","u","s","t","e","r"," ">> \o IntToStr(c + 1)
    /\ Assembled =>
           Len(mindmap.children) =
               Cardinality(Range(cluster_labels)) + Cardinality(Categories)

\* C17 witness: a document is assembled from 3 or more clusters, one of
\* them empty, some classified and some not.
C17_Witness ==
    /\ Assembled
    /\ n_clusters >= 3
    /\ \E c \in 0..(n_clusters - 1) : cluster_representatives[c + 1] = <<>>
    /\ unclassified # {}
    /\ unclassified # 0..(n_clusters - 1)
    /\ Len(mindmap.children) >= 2

\* merge_results, called on its own, has returned or raised.
MergeDone == entry = "merge_results" /\ pc = "done"

\* The cluster ids assigned to the texts.
AssignedIds == Range(cluster_labels)

\* C18: merge_results called with fewer labels than assigned cluster ids
\* does not raise; every cluster whose id is >= len(labels) is omitted from
\* the tree, and every cluster whose id is < len(labels) is emitted once,
\* with its own label and its items.
C18_UnlabelledClustersOmitted ==
    (MergeDone /\ \E c \in AssignedIds : c >= Len(classified_labels)) =>
        /\ result.kind = "return"
        /\ LET children == result.value.children
           IN  /\ \A c \in AssignedIds :
                      LET at == {i \in 1..Len(children) :
                                    NodeOfCluster(children[i], c)}
                      IN  IF c >= Len(classified_labels) THEN at = {}
                          ELSE /\ Cardinality(at) = 1
                               /\ \A i \in at :
                                      children[i].node = classified_labels[c + 1]
               /\ Len(children) =
                      Cardinality({c \in AssignedIds : c < Len(classified_labels)})
                      + Cardinality(Categories)

\* C18 witness: merge_results has returned for an assignment whose first id
\* has no label while a later one has.
C18_Witness ==
    /\ MergeDone
    /\ cluster_labels[1] >= Len(classified_labels)
    /\ \E c \in AssignedIds : c < Len(classified_labels)
    /\ \E i \in 1..Len(result.value.children) :
           result.value.children[i].node = classified_labels[1]

\* extract_entities, called on its own, has returned or raised.
ExtractDone == entry = "extract_entities" /\ pc = "done"

\* One (text, label) pair for each item of the list that carries both
\* 'entity' and 'word', in list order.
PairsOfCompleteItems(items) ==
    LET Complete(item) == {"entity", "word"} \subseteq DOMAIN item
        kept == SelectSeq(items, Complete)
    IN  [i \in 1..Len(kept) |-> [text |-> kept[i].word, label |-> kept[i].entity]]

\* C19: extract_entities never raises; on an exception, a non-200 status or
\* a non-list body it returns the empty list; on a list body it returns, in
\* response order and without deduplication, one pair for each item that
\* carries both fields, skipping the others.
C19_EntitiesFromResponse ==
    ExtractDone =>
        /\ result.kind = "return"
        /\ result.value =
               IF /\ response.kind = "http"
                  /\ response.status = 200
                  /\ IsList(response.body)
               THEN PairsOfCompleteItems(response.body.items)
               ELSE <<>>

\* The document d, made for the text t, has consistent flags: fallback_mode
\* is true exactly when ai_processed is false, the root is "Mind Map" and
\* source_text_length is the length of t.
FlagsConsistent(d, t) ==
    /\ d.root = <<"M","i","n","d"," ","M","a","p">>
    /\ d.source_text_length = Len(t)
    /\ d.ai_processed \in BOOLEAN
    /\ ("fallback_mode" \in DOMAIN d /\ d.fallback_mode = TRUE)
           <=> (d.ai_processed = FALSE)

\* C20: a document returned by process_text_to_mindmap has fallback_mode =
\* true exactly when ai_processed = false, root "Mind Map" and
\* source_text_length equal to the length of the input text; so has the
\* document lines 39-47 make of a document that process_text assembled.
C20_FallbackFlags ==
    /\ ServiceDone =>
           /\ result.kind = "return"
           /\ FlagsConsistent(result.value, text)
    /\ (Assembled /\ entry = "process_text_to_mindmap") =>
           LET made == process_text_to_mindmap(text, Return(mindmap))
           IN  /\ made.kind = "return"
               /\ made.value.ai_processed = TRUE
               /\ FlagsConsistent(made.value, text)

\* C20 witness: process_text_to_mindmap has returned the fallback document
\* with topics for a non-empty text, after process_text had assembled its
\* document.
C20_Witness ==
    /\ ServiceDone
    /\ Assembled
    /\ Len(text) > 0
    /\ result.value.ai_processed = FALSE
    /\ result.value.fallback_mode = TRUE
    /\ result.value.children # <<>>

\* preprocess_text has just returned to process_text.
Preprocessed ==
    /\ entry \in {"process_text", "process_text_to_mindmap"}
    /\ pc = "embed"
    /\ embeddings = <<>>

\* p stands in s at position i.
OccursAt(p, s, i) ==
    /\ i >= 1
    /\ i + Len(p) - 1 <= Len(s)
    /\ SubSeq(s, i, i + Len(p) - 1) = p

\* The least position >= i at which p stands in s, or 0.
FirstOccurrence(p, s, i) ==
    IF \E j \in i..Len(s) : OccursAt(p, s, j)
    THEN CHOOSE j \in i..Len(s) :
             OccursAt(p, s, j) /\ \A m \in i..(j - 1) : ~OccursAt(p, s, m)
    ELSE 0

RECURSIVE PhrasePosition(_, _, _)
\* The position in s of the k-th of the phrases ps when each phrase is
\* looked for after the end of the one before, or 0 when one is not found.
PhrasePosition(ps, s, k) ==
    IF k = 1 THEN FirstOccurrence(ps[1], s, 1)
    ELSE LET before == PhrasePosition(ps, s, k - 1)
         IN  IF before = 0 THEN 0
             ELSE FirstOccurrence(ps[k], s, before + Len(ps[k - 1]))

\* The trimmed length of the sentence of s around position i: the maximal
\* stretch without a terminator.
SentenceLengthAround(s, i) ==
    LET from == CHOOSE a \in 1..i :
                    /\ \A m \in a..i : s[m] \notin Terminators
                    /\ a = 1 \/ s[a - 1] \in Terminators
        to   == CHOOSE b \in i..Len(s) :
                    /\ \A m \in i..b : s[m] \notin Terminators
                    /\ b = Len(s) \/ s[b + 1] \in Terminators
    IN  Len(Strip(SubSeq(s, from, to)))

\* C21: every phrase returned by preprocess_text is trimmed, longer than 5
\* characters, free of sentence terminators and of commas and semicolons,
\* and comes from a sentence whose trimmed length exceeds 10; the phrases
\* stand in the text in left-to-right order; the same text gives the same
\* phrases on every call.
C21_PhrasesWellFormed ==
    Preprocessed =>
        LET s == CollapseWS(Strip(text))
        IN  /\ \A k \in 1..Len(phrases) :
                   LET p == phrases[k]
                       at == PhrasePosition(phrases, s, k)
                   IN  /\ Len(p) > 5
                       /\ p[1] \notin WS /\ p[Len(p)] \notin WS
                       /\ \A m \in 1..Len(p) :
                              p[m] \notin {".", "!", "?", ",", ";"}
                       /\ at > 0
                       /\ SentenceLengthAround(s, at) > 10
            /\ phrases = preprocess_text(text)

\* C21 witness: preprocess_text has returned three phrases of two sentences
\* of a text that also holds a sentence and a fragment that are too short.
C21_Witness ==
    /\ Preprocessed
    /\ text = TextMixed
    /\ Len(phrases) = 3

\* process_text has built the representatives (lines 343-351).
RepresentativesBuilt ==
    /\ entry \in {"process_text", "process_text_to_mindmap"}
    /\ pc \in {"classify", "ner", "merge", "save"}

\* The positions of the phrases assigned to cluster id i.
PositionsIn(i) == {j \in 1..Len(phrases) : cluster_labels[j] = i}

\* C24: the representative of cluster id i is the longest phrase assigned
\* to i, the earliest one on a tie in length; an id in [0, k) without
\* phrases gets the empty string; there is one representative per id in
\* [0, k), in id order.
C24_LongestEarliestRepresentative ==
    RepresentativesBuilt =>
        /\ Len(cluster_representatives) = n_clusters
        /\ \A i \in 0..(n_clusters - 1) :
               LET rep == cluster_representatives[i + 1]
               IN  IF PositionsIn(i) = {} THEN rep = <<>>
                   ELSE \E j \in PositionsIn(i) :
                            /\ rep = phrases[j]
                            /\ \A m \in PositionsIn(i) :
                                   /\ Len(phrases[m]) <= Len(phrases[j])
                                   /\ m < j => Len(phrases[m]) < Len(phrases[j])

\* C24 witness: the representatives are built for an assignment with an
\* empty cluster and a cluster of two different phrases of equal length.
C24_Witness ==
    /\ RepresentativesBuilt
    /\ \E i \in 0..(n_clusters - 1) : PositionsIn(i) = {}
    /\ \E i \in 0..(n_clusters - 1) :
           \E j, m \in PositionsIn(i) :
               /\ j < m
               /\ Len(phrases[j]) = Len(phrases[m])
               /\ phrases[j] # phrases[m]
               /\ cluster_representatives[i + 1] = phrases[j]

\* The document merge_results made: the one process_text assembled, or the
\* one returned to a caller of merge_results itself.
MergedChildren ==
    IF MergeDone THEN result.value.children ELSE mindmap.children

\* The ids of the clusters that have a label, in the order of their first
\* phrase.
LabelledIds ==
    LET firsts == SortedSeq({FirstPosition(c) :
                      c \in {d \in AssignedIds : d < Len(classified_labels)}})
    IN  [i \in 1..Len(firsts) |-> cluster_labels[firsts[i]]]

\* item is what merge_results makes of phrase: the phrase itself, or for a
\* phrase of more than 50 characters its truncation or a summary returned
\* by the summarization endpoint.
DerivedFrom(item, phrase) ==
    \/ item = phrase /\ Len(phrase) <= 50
    \/ /\ Len(phrase) > 50
       /\ item \in {SubSeq(phrase, 1, 50) \o <<".", ".", ".">>,
                    ShortSummary, LongSummary}

\* C29: every phrase position contributes to at most one cluster node: the
\* items of the node of a cluster derive from the phrases assigned to that
\* cluster id and from no others, in their original order, the first 5 of
\* them, and no cluster node has an empty list of items.
C29_ItemsOfOwnCluster ==
    (Assembled \/ MergeDone) =>
        /\ Len(MergedChildren) = Len(LabelledIds) + Cardinality(Categories)
        /\ \A i \in 1..Len(LabelledIds) :
               LET items == MergedChildren[i].children
                   pos   == SortedSeq(PositionsIn(LabelledIds[i]))
               IN  /\ Len(items) >= 1
                   /\ Len(items) = IF Len(pos) < 5 THEN Len(pos) ELSE 5
                   /\ \A m \in 1..Len(items) :
                          DerivedFrom(items[m], phrases[pos[m]])

\* C29 witness: a document is assembled from two clusters whose phrases
\* alternate, one of them with more than 5 phrases.
C29_Witness ==
    /\ Assembled
    /\ Len(LabelledIds) >= 2
    /\ Len(cluster_labels) >= 3
    /\ cluster_labels[1] = cluster_labels[3]
    /\ cluster_labels[1] # cluster_labels[2]
    /\ \E c \in AssignedIds : Cardinality(PositionsIn(c)) > 5

\* The items of the document's children, child by child.
AllItems(doc) == Flatten([i \in 1..Len(doc.children) |-> doc.children[i].children])

\* The elements of seq at the positions in P, in order.
Pick(seq, P) ==
    LET pos == SortedSeq(P)
    IN  [m \in 1..Len(pos) |-> seq[pos[m]]]

\* C30: in the fallback document the topics are named "Topic 1" .. "Topic
\* m" without gaps, none has an empty list of items, every item is a
\* non-empty trimmed sentence, and the items read topic by topic are the
\* non-empty period-separated sentences of the text in their order, less
\* the sentences after the fifth of a chunk.
C30_FallbackTopics ==
    (ServiceDone /\ ~result.value.ai_processed) =>
        LET doc == result.value
            sentences == FallbackSentences(text)
            size == IF Len(sentences) \div 3 > 1 THEN Len(sentences) \div 3 ELSE 1
        IN  /\ TopicChildren(doc, Len(doc.children))
            /\ \A i \in 1..Len(doc.children) : doc.children[i].children # <<>>
            /\ \A i \in 1..Len(AllItems(doc)) :
                   LET item == AllItems(doc)[i]
                   IN  /\ item # <<>>
                       /\ item[1] \notin WS /\ item[Len(item)] \notin WS
                       /\ \A m \in 1..Len(item) : item[m] # "."
            /\ AllItems(doc) =
                   Pick(sentences, {j \in 1..Len(sentences) : (j - 1) % size < 5})

\* C30 witness: the fallback document of a text with sentences after the
\* fifth of a chunk has several topics and fewer items than the text has
\* sentences.
C30_Witness ==
    /\ ServiceDone
    /\ Len(result.value.children) >= 3
    /\ Len(AllItems(result.value)) < Len(FallbackSentences(text))
    /\ Len(AllItems(result.value)) > 5

\* Two invocations of process_text that ran at the same time have both
\* returned.
BothReturned ==
    /\ entry = "process_text"
    /\ pc = "done"
    /\ result.kind = "return"
    /\ other.pc = "done"
    /\ other.result.kind = "return"

\* C22: when two invocations of process_text with default arguments on
\* different texts interleave, each returns and leaves behind exactly what
\* it does when run alone, which is its own document returned and written
\* to the output file; neither overwrites the other's output.
C22_InvocationsIndependent ==
    BothReturned =>
        /\ result.value = mindmap
        /\ files[DefaultOutputFile] = result.value
        /\ other.result.value = other.mindmap
        /\ files[DefaultOutputFile] = other.result.value

\* C23: every invocation of process_text_to_mindmap eventually returns a
\* document, also when a remote call never responds.
C23_EventuallyReturns ==
    (entry = "process_text_to_mindmap") ~> (pc = "done" /\ result.kind = "return")

(***************************************************************************)
(* The node store's claims                                                 *)
(***************************************************************************)

\* Some row of the connection table goes from source_id to target_id.
Linked(cs, source_id, target_id) ==
    \E i \in DOMAIN cs : cs[i].source = source_id /\ cs[i].target = target_id

\* C25: after delete_node(id) returned True no connection has id as source
\* or target, and after any sequence of create, link, unlink and delete
\* requests every stored connection has two existing nodes as endpoints.
C25_ConnectionsDeletedWithNode ==
    /\ (last.op = "delete" /\ last.returned) =>
           \A i \in DOMAIN connections :
               connections[i].source # last.a /\ connections[i].target # last.a
    /\ \A i \in DOMAIN connections :
           /\ \E k \in DOMAIN nodes : nodes[k].id = connections[i].source
           /\ \E k \in DOMAIN nodes : nodes[k].id = connections[i].target

\* C26: link_nodes is idempotent and directional.  There is never more
\* than one connection per ordered (source, target) pair.  A link request
\* with a missing node returns False and changes nothing; between two
\* stored nodes it returns True, adding the source -> target connection when
\* there is none and nothing when there is one.  An unlink request removes
\* the source -> target connection alone and returns True, or returns False
\* and changes nothing when there is none.
C26_LinkIdempotentDirectional ==
    [][ LET source_id == last'.a
            target_id == last'.b
            row       == [source |-> source_id, target |-> target_id]
            stored(id) == \E k \in DOMAIN nodes : nodes[k].id = id
        IN  /\ \A i, j \in DOMAIN connections' :
                   connections'[i] = connections'[j] => i = j
            /\ (last'.op = "link" /\ ~last'.raised) =>
                   /\ nodes' = nodes
                   /\ IF ~stored(source_id) \/ ~stored(target_id)
                      THEN ~last'.returned /\ connections' = connections
                      ELSE IF Linked(connections, source_id, target_id)
                      THEN last'.returned /\ connections' = connections
                      ELSE last'.returned /\ connections' = Append(connections, row)
            /\ (last'.op = "unlink" /\ ~last'.raised) =>
                   /\ nodes' = nodes
                   /\ IF Linked(connections, source_id, target_id)
                      THEN /\ last'.returned
                           /\ connections' =
                                  SelectSeq(connections, LAMBDA c : c # row)
                      ELSE ~last'.returned /\ connections' = connections
      ]_vars

\* A link request for a pair that is linked already has been answered, and
\* the reverse pair is not linked.
C26_Witness ==
    /\ last.op = "link"
    /\ last.existing
    /\ last.returned
    /\ Linked(connections, last.a, last.b)
    /\ ~Linked(connections, last.b, last.a)
    /\ last.a # last.b

\* C27: the link and unlink endpoints answer with status 400 when the
\* service reports failure, and with status 500 only when the service
\* raises.
C27_FailureAnsweredWith400 ==
    last.op \in {"link", "unlink"} =>
        /\ (~last.raised /\ ~last.returned) => last.status = 400
        /\ last.status = 500 => last.raised

\* The document of the last generate request.
SavedDocument == ServiceDocument(SaveTexts[last.doc])

\* The row of the node table with the given id.
NodeRow(id) == nodes[CHOOSE k \in DOMAIN nodes : nodes[k].id = id]

\* The number of items of the first n children of a document.
RECURSIVE CountItems(_, _)
CountItems(children, n) ==
    IF n = 0 THEN 0
    ELSE CountItems(children, n - 1) + Len(children[n].children)

\* C28: save_mindmap_to_db materializes a document as a three-level tree.
\* It returns a list of 1 + number of children + total number of items
\* nodes, all stored: exactly one ROOT node, one BRANCH node per child under
\* that root, one LEAF node per item under a branch, and every node with a
\* parent comes after its parent in the list.
C28_ThreeLevelTree ==
    last.op = "save" =>
        LET d     == SavedDocument
            saved == last.saved
            at(k) == NodeRow(saved[k])
            K     == DOMAIN saved
        IN  /\ last.returned
            /\ Len(saved) = 1 + Len(d.children)
                              + CountItems(d.children, Len(d.children))
            /\ \A k \in K : \E m \in DOMAIN nodes : nodes[m].id = saved[k]
            /\ Cardinality({k \in K : at(k).node_type = "root"}) = 1
            /\ Cardinality({k \in K : /\ at(k).node_type = "branch"
                                      /\ at(k).parent_id = Some(saved[1])})
                   = Len(d.children)
            /\ Cardinality({k \in K :
                    /\ at(k).node_type = "leaf"
                    /\ \E m \in K : /\ at(m).node_type = "branch"
                                    /\ at(k).parent_id = Some(saved[m])})
                   = CountItems(d.children, Len(d.children))
            /\ \A k \in K :
                   at(k).parent_id # None =>
                       \E m \in 1..(k - 1) : at(k).parent_id = Some(saved[m])

====
